---------------------------- MODULE Spec2Model ----------------------------
(***************************************************************************)
(* Background-effect core of niri: the region decomposer                   *)
(* (src/utils/region.rs), the dual-blur texture pyramid                    *)
(* (src/render_helpers/blur.rs), the subregion damage filter               *)
(* and the background effect of a surface                                  *)
(* (src/render_helpers/background_effect.rs), the framebuffer effect       *)
(* (src/render_helpers/framebuffer_effect.rs), the Xray effect             *)
(* (src/render_helpers/xray.rs) and the cached blur region of a surface    *)
(* (src/handlers/background_effect.rs).                                    *)
(*                                                                         *)
(* The specifications share one set of variables; each moves the state of  *)
(* its own component and leaves the others as constructed:                 *)
(*   SpecRegion     region_to_non_overlapping_rects on well-formed input   *)
(*   SpecMalformed  the same function on input with negative sizes         *)
(*   SpecBlur       Blur::prepare_textures, Blur::render, handle release   *)
(*   SpecFilter     EffectSubregion::filter_damage                         *)
(*   SpecFb         FramebufferEffect render, capture and draw             *)
(*   SpecXray       Xray::render and XrayElement::draw                     *)
(*   SpecDraw       framebuffer effect and Xray elements in one frame      *)
(*   SpecCache      get_cached_blur_region, region requests and commits    *)
(*   SpecShared     the same cache with the renderer's reads falling       *)
(*                  between the steps of the protocol dispatch             *)
(*   SpecCommit     the commit counters of the Xray buffers over frames    *)
(*   SpecFrames     one framebuffer effect rendered, captured and drawn    *)
(*                  frame after frame                                      *)
(*   SpecEffect     BackgroundEffect::update_config and                    *)
(*                  update_render_elements                                 *)
(*   SpecEffectRender  BackgroundEffect::render through the Xray           *)
(*   SpecSubregion  elements without a subregion and with an empty one     *)
(***************************************************************************)
EXTENDS Integers, Sequences, FiniteSets, TLC

VARIABLES
    region,      \* RegionAttributes.rects: sequence of [kind, x, y, w, h]
    output,      \* the caller's Vec<Rectangle<i32, Logical>>: sequence of [x, y, w, h]
    prior,       \* what the output buffer held when the call was made
    regionPc,    \* "ready" before the call, "done" after it
    textures,    \* Blur.textures: sequence of [id, w, h]
    held,        \* ids of textures with a live handle outside Blur.textures
    nextTexId,   \* id the backend gives to the next created texture
    prepares,    \* number of prepare_textures calls made so far
    blurCall,    \* the last Blur call: arguments, result, the list before it
    subregion,   \* EffectSubregion: [rects, scale, offset]
    filtered,    \* the caller's Vec<Rectangle<i32, Physical>> of filter_damage
    fdCall,      \* the last filter_damage call: arguments and rounded rectangles
    fbInner,     \* FramebufferEffect.inner: <<>> for None, <<Inner>> for Some
    fbElem,      \* the FramebufferEffectElement of the frame, <<>> when none
    fbCall,      \* the last FramebufferEffect call: arguments, result, GPU calls
    fbFrames,    \* number of frames started so far
    xrWorkspaces, \* Xray.workspaces: sequence of [rect, color]
    xrBackground, \* the background EffectBuffer of the render target
    xrBackdrop,   \* the backdrop EffectBuffer of the render target
    xrElems,      \* the XrayElements pushed in this frame, in order
    xrCall,       \* the last Xray call: arguments, result, draw calls
    xrCalls,      \* calls made in this frame: [render, draw]
    cbInner,      \* CachedBlurRegionInner of the surface
    cbExt,        \* BackgroundEffectSurfaceCachedState: <<>> or <<[pending, current]>>
    cbKde,        \* KdeBlurSurfaceCachedState: <<>> or <<[pending, current]>>
    cbCall,       \* the last call on the surface: request, commit or read
    cbHist,       \* requests, commits and reads so far: [read, fresh, requested]
    cbHooks,      \* number of post-commit hooks registered on the surface
    cbPc,         \* where the protocol dispatch stands: "idle" between requests
    cbArc,        \* the Arc in CachedBlurRegionInner.rects: 0 for None, else its id
    cbHeap,       \* the Vec of every live Arc, by id
    cbHeld,       \* ids of the Arcs that consumers hold a clone of
    beEffect,     \* BackgroundEffect: [damage, corner_radius, blur_config, options]
    beCall        \* the last BackgroundEffect call: arguments and result

regionVars == <<region, output, prior, regionPc>>
blurVars == <<textures, held, nextTexId, prepares, blurCall>>
filterVars == <<subregion, filtered, fdCall>>
fbVars == <<fbInner, fbElem, fbCall, fbFrames>>
xrayVars == <<xrWorkspaces, xrBackground, xrBackdrop, xrElems, xrCall, xrCalls>>
arcVars == <<cbArc, cbHeap, cbHeld>>
cacheVars == <<cbInner, cbExt, cbKde, cbCall, cbHist, cbHooks, cbPc, arcVars>>
effectVars == <<beEffect, beCall>>
vars == <<regionVars, blurVars, filterVars, fbVars, xrayVars, cacheVars, effectVars>>

\* What the operations of one component leave alone: the other components.
otherThanRegion == <<blurVars, filterVars, fbVars, xrayVars, cacheVars, effectVars>>
otherThanBlur == <<regionVars, filterVars, fbVars, xrayVars, cacheVars, effectVars>>
otherThanFilter == <<regionVars, blurVars, fbVars, xrayVars, cacheVars, effectVars>>
\* A framebuffer effect owns a Blur: its operations act on the blur state too.
otherThanFb == <<regionVars, filterVars, xrayVars, cacheVars, effectVars>>
otherThanXray == <<regionVars, blurVars, filterVars, fbVars, cacheVars, effectVars>>
otherThanCache == <<regionVars, blurVars, filterVars, fbVars, xrayVars, effectVars>>
otherThanEffect == <<regionVars, blurVars, filterVars, fbVars, xrayVars, cacheVars>>
\* A background effect with xray renders through the Xray.
otherThanEffectAndXray == <<regionVars, blurVars, filterVars, fbVars, cacheVars>>

-----------------------------------------------------------------------------
(* Bounds of the model.                                                    *)

\* Denominator of the fixed-point grid: f64 values count 1/Frac units.
Frac == 2
\* Rectangle locations are drawn from 0..MaxCoord, sizes from 0..MaxSize.
MaxCoord == 1
MaxSize == 3
\* Longest region over the whole grid.
MaxRects == 2
\* Single-band regions (every rectangle spans y in [0, 1)): locations from
\* 0..MaxBandCoord, up to MaxBandRects rectangles.
MaxBandCoord == 2
MaxBandRects == 3
\* Most negative width or height of a malformed rectangle is -MaxNegSize.
MaxNegSize == 2
\* Longest side of a source texture.
MaxDim == 5
\* Pass counts tried: 0..MaxPassesIn, and the largest u8.
MaxPassesIn == 2
\* The texture-creation callback may fail at its 1st..MaxFailAt-th call.
MaxFailAt == 2
\* Number of prepare_textures calls in a behaviour.
MaxPrepares == 2

Min2(a, b) == IF a < b THEN a ELSE b
Max2(a, b) == IF a > b THEN a ELSE b

SeqsUpTo(S, n) == UNION {[1..k -> S] : k \in 0..n}

-----------------------------------------------------------------------------
(* Vec helpers.                                                            *)

\* Vec::insert(i, e) with i counted from 1.
InsertAt(s, i, e) == SubSeq(s, 1, i - 1) \o <<e>> \o SubSeq(s, i, Len(s))

\* Vec::remove(i) with i counted from 1.
RemoveAt(s, i) == SubSeq(s, 1, i - 1) \o SubSeq(s, i + 1, Len(s))

\* Iteration order of a BTreeSet<i32>: ascending.
RECURSIVE SortSet(_)
SortSet(S) ==
    IF S = {} THEN <<>>
    ELSE LET m == CHOOSE m \in S : \A k \in S : m <= k
         IN  <<m>> \o SortSet(S \ {m})

-----------------------------------------------------------------------------
(* region_to_non_overlapping_rects, src/utils/region.rs                    *)

Kinds == {"Add", "Subtract"}

\* Rectangle::from_extremities((x1, lo), (x2, hi)): loc = top-left,
\* size = bottom-right - top-left.
FromExtremities(x1, lo, x2, hi) == [x |-> x1, y |-> lo, w |-> x2 - x1, h |-> hi - lo]

\* Mutant of ClearOutput: the buffer is not cleared.
KeepOutput(out) == out

\* output.clear()
ClearOutput(out) == <<>>

\* The BTreeSet of every rectangle's top and bottom edge.
CollectYs(rects) ==
    {rects[i].y : i \in 1..Len(rects)} \cup {rects[i].y + rects[i].h : i \in 1..Len(rects)}

\* The Add arm: walk the spans backwards from index i.
RECURSIVE AddLoop(_, _, _, _)
AddLoop(spans, i, x1, x2) ==
    IF i = 0 THEN InsertAt(spans, 1, <<x1, x2>>)
    ELSE LET start == spans[i][1]
             end == spans[i][2]
         IN  IF end < x1 THEN InsertAt(spans, i + 1, <<x1, x2>>)
             ELSE IF x2 < start THEN AddLoop(spans, i - 1, x1, x2)
             ELSE AddLoop(RemoveAt(spans, i), i - 1, Min2(x1, start), Max2(x2, end))

\* Mutant of AddSpan: an overlapping span is stepped over, not merged.
RECURSIVE AddLoopNoMerge(_, _, _, _)
AddLoopNoMerge(spans, i, x1, x2) ==
    IF i = 0 THEN InsertAt(spans, 1, <<x1, x2>>)
    ELSE IF spans[i][2] < x1 THEN InsertAt(spans, i + 1, <<x1, x2>>)
    ELSE AddLoopNoMerge(spans, i - 1, x1, x2)

AddSpanNoMerge(spans, x1, x2) == AddLoopNoMerge(spans, Len(spans), x1, x2)

\* Mutant of AddSpan: the comparisons are <= and so a span that only touches
\* the new one is not merged with it.
RECURSIVE AddLoopTouching(_, _, _, _)
AddLoopTouching(spans, i, x1, x2) ==
    IF i = 0 THEN InsertAt(spans, 1, <<x1, x2>>)
    ELSE LET start == spans[i][1]
             end == spans[i][2]
         IN  IF end <= x1 THEN InsertAt(spans, i + 1, <<x1, x2>>)
             ELSE IF x2 <= start THEN AddLoopTouching(spans, i - 1, x1, x2)
             ELSE AddLoopTouching(RemoveAt(spans, i), i - 1,
                                  Min2(x1, start), Max2(x2, end))

AddSpanTouching(spans, x1, x2) == AddLoopTouching(spans, Len(spans), x1, x2)

\* Mutant of AddSpan: a merged span is removed but the new span is not
\* widened to its extent.
RECURSIVE AddLoopNoExtend(_, _, _, _)
AddLoopNoExtend(spans, i, x1, x2) ==
    IF i = 0 THEN InsertAt(spans, 1, <<x1, x2>>)
    ELSE LET start == spans[i][1]
             end == spans[i][2]
         IN  IF end < x1 THEN InsertAt(spans, i + 1, <<x1, x2>>)
             ELSE IF x2 < start THEN AddLoopNoExtend(spans, i - 1, x1, x2)
             ELSE AddLoopNoExtend(RemoveAt(spans, i), i - 1, x1, x2)

AddSpanNoExtend(spans, x1, x2) == AddLoopNoExtend(spans, Len(spans), x1, x2)

AddSpan(spans, x1, x2) == AddLoop(spans, Len(spans), x1, x2)

\* The Subtract arm: walk the spans backwards from index i.
RECURSIVE SubtractLoop(_, _, _, _)
SubtractLoop(spans, i, x1, x2) ==
    IF i = 0 THEN spans
    ELSE LET start == spans[i][1]
             end == spans[i][2]
         IN  IF end <= x1 THEN spans
             ELSE IF x2 <= start THEN SubtractLoop(spans, i - 1, x1, x2)
             ELSE LET removed == RemoveAt(spans, i)
                      right == IF x2 < end THEN InsertAt(removed, i, <<x2, end>>)
                               ELSE removed
                      left == IF start < x1 THEN InsertAt(right, i, <<start, x1>>)
                              ELSE right
                  IN  SubtractLoop(left, i - 1, x1, x2)

\* Mutant of SubtractSpan: an overlapping span is removed whole, its parts
\* outside the subtracted range are not put back.
RECURSIVE SubtractLoopWhole(_, _, _, _)
SubtractLoopWhole(spans, i, x1, x2) ==
    IF i = 0 THEN spans
    ELSE IF spans[i][2] <= x1 THEN spans
    ELSE IF x2 <= spans[i][1] THEN SubtractLoopWhole(spans, i - 1, x1, x2)
    ELSE SubtractLoopWhole(RemoveAt(spans, i), i - 1, x1, x2)

SubtractSpanWhole(spans, x1, x2) == SubtractLoopWhole(spans, Len(spans), x1, x2)

SubtractSpan(spans, x1, x2) == SubtractLoop(spans, Len(spans), x1, x2)

\* Whether the 'region loop skips rectangle r in the band [lo, hi).
SkipsBand(r, lo, hi) == hi <= r.y \/ r.y + r.h <= lo

\* Mutant of EmptyExtent: the empty-rect test is missing.
NeverEmptyExtent(x1, x2) == FALSE

\* The empty-rect test on the x extent.
EmptyExtent(x1, x2) == x1 = x2

\* One iteration of the 'region loop.
ReplayRect(spans, r, lo, hi) ==
    IF SkipsBand(r, lo, hi) THEN spans
    ELSE LET x1 == r.x
             x2 == r.x + r.w
         IN  IF EmptyExtent(x1, x2) THEN spans
             ELSE IF r.kind = "Add" THEN AddSpan(spans, x1, x2)
             ELSE SubtractSpan(spans, x1, x2)

\* The 'region loop over rects[i..], starting from the given spans.
RECURSIVE ReplayFrom(_, _, _, _, _)
ReplayFrom(rects, i, spans, lo, hi) ==
    IF i > Len(rects) THEN spans
    ELSE ReplayFrom(rects, i + 1, ReplayRect(spans, rects[i], lo, hi), lo, hi)

BandSpans(rects, lo, hi) == ReplayFrom(rects, 1, <<>>, lo, hi)

\* Mutant of EmitBand: the spans are popped from the back.
EmitBandReversed(spans, lo, hi) ==
    [k \in 1..Len(spans) |->
        FromExtremities(spans[Len(spans) + 1 - k][1], lo, spans[Len(spans) + 1 - k][2], hi)]

\* Mutant of EmitBand: the end of a span is taken for the width.
EmitBandEndAsWidth(spans, lo, hi) ==
    [k \in 1..Len(spans) |->
        [x |-> spans[k][1], y |-> lo, w |-> spans[k][2], h |-> hi - lo]]

\* spans.drain(..) pushed as rectangles of the band.
EmitBand(spans, lo, hi) ==
    [k \in 1..Len(spans) |-> FromExtremities(spans[k][1], lo, spans[k][2], hi)]

\* The loop over Y bands: ys[i] is lo, ys[i + 1] is hi.
RECURSIVE SweepBands(_, _, _, _)
SweepBands(rects, ys, i, out) ==
    IF i >= Len(ys) THEN out
    ELSE SweepBands(rects, ys, i + 1,
                    out \o EmitBand(BandSpans(rects, ys[i], ys[i + 1]), ys[i], ys[i + 1]))

region_to_non_overlapping_rects(rects, out) ==
    SweepBands(rects, SortSet(CollectYs(rects)), 1, ClearOutput(out))

-----------------------------------------------------------------------------
(* Inputs of the region specifications.                                    *)

\* Rectangles as the property test draws them: location and non-negative size.
GridRects ==
    [kind : Kinds, x : 0..MaxCoord, y : 0..MaxCoord, w : 0..MaxSize, h : 0..MaxSize]

\* Rectangles that all span the band [0, 1).
BandRects == [kind : Kinds, x : 0..MaxBandCoord, y : {0}, w : 1..MaxSize, h : {1}]

Rect(kind, x1, y1, x2, y2) == [kind |-> kind, x |-> x1, y |-> y1, w |-> x2 - x1, h |-> y2 - y1]

\* The regions of test_region_to_non_overlapping_rects.
TestRegions ==
    { <<>>,
      <<Rect("Add", 0, 0, 10, 10)>>,
      <<Rect("Add", 0, 0, 0, 1)>>,
      <<Rect("Add", 0, 0, 1, 0)>>,
      <<Rect("Add", 0, 0, 5, 10), Rect("Add", 7, 0, 12, 10)>>,
      <<Rect("Add", 0, 0, 10, 10), Rect("Add", 5, 5, 15, 15)>>,
      <<Rect("Add", 0, 0, 20, 20), Rect("Subtract", 5, 5, 15, 15)>>,
      <<Rect("Add", 0, 0, 10, 10), Rect("Add", 10, 0, 20, 10)>> }

WellFormedRegions ==
    SeqsUpTo(GridRects, MaxRects) \cup SeqsUpTo(BandRects, MaxBandRects) \cup TestRegions

\* Rectangles whose width or height may be negative.
MalformedRects ==
    [kind : Kinds, x : 0..MaxBandCoord, y : {0}, w : (0 - MaxNegSize)..MaxSize, h : {-1, 1}]

MalformedRegions == SeqsUpTo(MalformedRects, MaxRects)

\* What the caller's buffer may hold before the call: nothing, or the
\* rectangles of an earlier call.
StaleRect == [x |-> -7, y |-> -7, w |-> 3, h |-> 3]
PriorOutputs == {<<>>, <<StaleRect>>}

-----------------------------------------------------------------------------
(* The region specifications.                                              *)

InitBlurIdle ==
    /\ textures = <<>>
    /\ held = {}
    /\ nextTexId = 1
    /\ prepares = 0
    /\ blurCall = [op |-> "none"]

\* No subregion is being filtered.
InitFilterIdle ==
    /\ subregion = [rects |-> <<>>, scale |-> [x |-> 0, y |-> 0], offset |-> [x |-> 0, y |-> 0]]
    /\ filtered = <<>>
    /\ fdCall = [op |-> "none"]

\* EffectBuffer::new: nothing captured yet, so the buffer is stale; no call
\* has been made on it in this frame.
NewEffectBuffer ==
    [stale |-> TRUE, prepares |-> 0, captures |-> 0, renders |-> 0, commit |-> 0]

\* Xray::new, with no element rendered.
InitXrayIdle ==
    /\ xrWorkspaces = <<>>
    /\ xrBackground = NewEffectBuffer
    /\ xrBackdrop = NewEffectBuffer
    /\ xrElems = <<>>
    /\ xrCall = [op |-> "none"]
    /\ xrCalls = [render |-> 0, draw |-> 0]

\* CachedBlurRegionInner::default(): nothing pending, nothing cached.
NewCachedBlurRegionInner ==
    [pending_dirty |-> FALSE, dirty |-> FALSE, hook_registered |-> FALSE, rects |-> <<>>]

\* A surface no client has asked a blur region for.
InitCacheIdle ==
    /\ cbInner = NewCachedBlurRegionInner
    /\ cbExt = <<>>
    /\ cbKde = <<>>
    /\ cbCall = [op |-> "none"]
    /\ cbHist = [read |-> <<>>, fresh |-> FALSE, requested |-> FALSE]
    /\ cbHooks = 0
    /\ cbPc = "idle"
    /\ cbArc = 0
    /\ cbHeap = <<>>
    /\ cbHeld = {}

\* niri_config::Blur of a BackgroundEffect that was given no configuration:
\* blur not switched off, no noise, saturation 1 (1/Frac units).
NoBlurConfig == [off |-> FALSE, noise |-> 0, saturation |-> Frac]

\* Options::default()
NoOptions == [blur |-> FALSE, xray |-> FALSE, noise |-> <<>>, saturation |-> <<>>]

\* BackgroundEffect::new
NewBackgroundEffect ==
    [damage |-> 0, corner_radius |-> 0, blur_config |-> NoBlurConfig, options |-> NoOptions]

\* A background effect no call was made on.
InitEffectIdle ==
    /\ beEffect = NewBackgroundEffect
    /\ beCall = [op |-> "none"]

\* No framebuffer effect exists.
InitFbIdle ==
    /\ fbInner = <<>>
    /\ fbElem = <<>>
    /\ fbCall = [op |-> "none"]
    /\ fbFrames = 0

\* No region is being decomposed.
InitRegionIdle ==
    /\ region = <<>>
    /\ output = <<>>
    /\ prior = <<>>
    /\ regionPc = "done"

InitRegion ==
    /\ region \in WellFormedRegions
    /\ output \in PriorOutputs
    /\ prior = output
    /\ regionPc = "ready"
    /\ InitBlurIdle
    /\ InitFilterIdle
    /\ InitFbIdle
    /\ InitXrayIdle
    /\ InitCacheIdle
    /\ InitEffectIdle

InitMalformed ==
    /\ region \in MalformedRegions
    /\ output \in PriorOutputs
    /\ prior = output
    /\ regionPc = "ready"
    /\ InitBlurIdle
    /\ InitFilterIdle
    /\ InitFbIdle
    /\ InitXrayIdle
    /\ InitCacheIdle
    /\ InitEffectIdle

\* The call region_to_non_overlapping_rects(&region, &mut output).
Decompose ==
    /\ regionPc = "ready"
    /\ output' = region_to_non_overlapping_rects(region, output)
    /\ regionPc' = "done"
    /\ UNCHANGED <<region, prior>>
    /\ UNCHANGED otherThanRegion

NextRegion == Decompose

SpecRegion == InitRegion /\ [][NextRegion]_vars

SpecMalformed == InitMalformed /\ [][NextRegion]_vars


-----------------------------------------------------------------------------
(* Blur, src/render_helpers/blur.rs                                        *)

\* options.passes is a u8; the clamp keeps it in [MinPasses, MaxPasses].
MinPasses == 1
MaxPasses == 31
U8Max == 255

\* options.passes.clamp(1, 31)
ClampPasses(passes) ==
    IF passes < MinPasses THEN MinPasses
    ELSE IF passes > MaxPasses THEN MaxPasses
    ELSE passes

\* max(1, d / 2) on a non-negative i32.
Halve(d) == Max2(1, d \div 2)

\* Size of the texture for step i (0 = output) of a pyramid over a w x h source.
RECURSIVE StepSize(_, _, _)
StepSize(w, h, i) ==
    IF i = 0 THEN [w |-> w, h |-> h]
    ELSE StepSize(Halve(w), Halve(h), i - 1)

\* GlesTexture::is_unique_reference, given the ids of the textures that have
\* a live handle outside the list.
IsUniqueAmong(tex, handles) == tex.id \notin handles

\* GlesTexture::is_unique_reference on a texture of the list.
IsUniqueReference(tex) == IsUniqueAmong(tex, held)

\* Mutant of MustRecreate: only the size is compared.
MustRecreateSizeOnly(list, w, h) ==
    /\ list # <<>>
    /\ (list[1].w # w \/ list[1].h # h)

\* The check on the first texture: the list is cleared when the output size
\* changed or the output texture has another live handle.
MustRecreateOn(list, handles, w, h) ==
    /\ list # <<>>
    /\ \/ list[1].w # w \/ list[1].h # h
       \/ ~IsUniqueAmong(list[1], handles)

MustRecreate(list, w, h) == MustRecreateOn(list, held, w, h)

\* The list after "Create any missing textures" made n successful
\* create_texture calls, the first of them for step Len(kept).
CreateMissingFrom(kept, w, h, n, firstId) ==
    kept \o [k \in 1..n |->
                [id |-> firstId + k - 1,
                 w |-> StepSize(w, h, Len(kept) + k - 1).w,
                 h |-> StepSize(w, h, Len(kept) + k - 1).h]]

CreateMissing(kept, w, h, n) == CreateMissingFrom(kept, w, h, n, nextTexId)

\* Mutant of DropExtra: the trailing textures are kept.
KeepExtra(list, p) == list

\* self.textures.drain(passes + 1..)
DropExtra(list, p) == SubSeq(list, 1, Min2(Len(list), p + 1))

\* The outcome of Blur::prepare_textures on a Blur holding list: the list it
\* leaves, whether it returned Ok, and the number of textures it created
\* (ids from firstId on).  create_texture fails at its failAt-th call.
PrepareOutcome(list, handles, firstId, w, h, passes, failAt) ==
    LET p == ClampPasses(passes)
        kept == IF MustRecreateOn(list, handles, w, h) THEN <<>> ELSE list
        missing == Max2(0, p + 1 - Len(kept))
        fails == failAt >= 1 /\ failAt <= missing
        made == IF fails THEN failAt - 1 ELSE missing
    IN  [list |-> IF fails THEN CreateMissingFrom(kept, w, h, made, firstId)
                  ELSE DropExtra(CreateMissingFrom(kept, w, h, made, firstId), p),
         ok |-> ~fails,
         made |-> made]

\* Blur::prepare_textures(create_texture, source, options) with a w x h
\* source; create_texture fails at its failAt-th call (0: it never fails).
PrepareTextures(w, h, passes, failAt) ==
    /\ prepares < MaxPrepares
    /\ LET p == ClampPasses(passes)
           kept == IF MustRecreate(textures, w, h) THEN <<>> ELSE textures
           missing == Max2(0, p + 1 - Len(kept))
           fails == failAt >= 1 /\ failAt <= missing
           made == IF fails THEN failAt - 1 ELSE missing
       IN  /\ textures' = IF fails THEN CreateMissing(kept, w, h, made)
                          ELSE DropExtra(CreateMissing(kept, w, h, made), p)
           /\ nextTexId' = nextTexId + made
           /\ blurCall' = [op |-> "prepare", ok |-> ~fails, w |-> w, h |-> h,
                           passes |-> passes, before |-> textures,
                           uniqueBefore |-> (textures # <<>> /\ IsUniqueReference(textures[1])),
                           created |-> made]
    /\ prepares' = prepares + 1
    /\ UNCHANGED held
    /\ UNCHANGED otherThanBlur

\* The downsample draws: step k reads the source (k = 1) or entry k - 1 and
\* writes entry k.  Texture id 0 is the source.
DownDraws(list) ==
    [k \in 1..(Len(list) - 1) |->
        [src |-> IF k = 1 THEN 0 ELSE list[k].id, dst |-> list[k + 1].id]]

\* Mutant of UpDraws: the upsample pass walks the list forwards.
UpDrawsForward(list) ==
    [k \in 1..(Len(list) - 1) |->
        [src |-> list[k + 1].id, dst |-> list[k].id]]

\* The upsample draws: the list reversed, zipped with itself skipping one.
UpDraws(list) ==
    [k \in 1..(Len(list) - 1) |->
        [src |-> list[Len(list) - k + 1].id, dst |-> list[Len(list) - k].id]]

\* Mutant of RenderError: the ownership of the output texture is not checked.
RenderErrorNoUnique(w, h, passes, sameContext) ==
    IF ~sameContext THEN "wrong renderer"
    ELSE IF Len(textures) # ClampPasses(passes) + 1 THEN "wrong textures len"
    ELSE IF textures[1].w # w \/ textures[1].h # h THEN "wrong output texture size"
    ELSE ""

\* The first ensure! of Blur::render that fails, "" when none does, for a
\* Blur holding list while the textures in handles are held elsewhere.
RenderErrorOn(list, handles, w, h, passes, sameContext) ==
    IF ~sameContext THEN "wrong renderer"
    ELSE IF Len(list) # ClampPasses(passes) + 1 THEN "wrong textures len"
    ELSE IF list[1].w # w \/ list[1].h # h THEN "wrong output texture size"
    ELSE IF ~IsUniqueAmong(list[1], handles) THEN "output texture has a non-unique reference"
    ELSE ""

RenderError(w, h, passes, sameContext) ==
    RenderErrorOn(textures, held, w, h, passes, sameContext)

\* No texture: the Err(..) result of Blur::render carries none.  Texture ids
\* start at 1 and 0 names the source.
NoTexture == -1

\* The GL context state of the frame that Blur::render touches.  fbo is the
\* draw framebuffer binding (what GL_FRAMEBUFFER_BINDING reports), tex2d the
\* TEXTURE_2D binding of unit 0 (NoTexture when nothing is bound, 0 the
\* source), attribPointer the client memory the vertex attribute points to.
GlTargets ==
    {[fbo |-> "frame", viewport |-> [x |-> 0, y |-> 0, w |-> MaxDim, h |-> MaxDim]],
     [fbo |-> "default", viewport |-> [x |-> 1, y |-> 1, w |-> MaxDim - 1, h |-> 1]]}

GlBindings ==
    {[activeTexture |-> 0, tex2d |-> NoTexture, program |-> "none",
      arrayBuffer |-> 0, attribEnabled |-> FALSE],
     [activeTexture |-> 1, tex2d |-> 0, program |-> "frame",
      arrayBuffer |-> 1, attribEnabled |-> TRUE]}

\* The states the enclosing frame can hand to Blur::render: GlesFrame draws
\* with blending and the scissor test enabled, another caller need not.
GlEntryStates ==
    {[fbo |-> t.fbo, viewport |-> t.viewport, blend |-> e, scissor |-> e,
      activeTexture |-> n.activeTexture, tex2d |-> n.tex2d,
      program |-> n.program, arrayBuffer |-> n.arrayBuffer,
      attribEnabled |-> n.attribEnabled, attribPointer |-> "frame"] :
        t \in GlTargets, e \in BOOLEAN, n \in GlBindings}

\* GetIntegerv(FRAMEBUFFER_BINDING) and GetIntegerv(VIEWPORT).
GlSave(g) == [current_fbo |-> g.fbo, viewport |-> g.viewport]

\* Disable(BLEND), Disable(SCISSOR_TEST), ActiveTexture(TEXTURE0),
\* BindFramebuffer(DRAW_FRAMEBUFFER, fbos[0]).
GlEnter(g) ==
    [g EXCEPT !.blend = FALSE, !.scissor = FALSE, !.activeTexture = 0,
              !.fbo = "blur"]

\* UseProgram, EnableVertexAttribArray, BindBuffer(ARRAY_BUFFER, 0) and
\* VertexAttribPointer(.., vertices) at the start of a pass.
GlPassBegin(g, program) ==
    [g EXCEPT !.program = program, !.attribEnabled = TRUE,
              !.arrayBuffer = 0, !.attribPointer = "vertices"]

\* One draw into the texture dst: Viewport(0, 0, dst.w, dst.h) and
\* BindTexture(TEXTURE_2D, src).
GlDraw(g, draw, list) ==
    LET dst == CHOOSE t \in {list[i] : i \in 1..Len(list)} : t.id = draw.dst
    IN  [g EXCEPT !.viewport = [x |-> 0, y |-> 0, w |-> dst.w, h |-> dst.h],
                  !.tex2d = draw.src]

\* The draws of one pass in order: each sets the viewport and the texture
\* binding anew, so the state after the pass is the one its last draw left.
GlDraws(g, draws, list) ==
    IF draws = <<>> THEN g ELSE GlDraw(g, draws[Len(draws)], list)

\* DisableVertexAttribArray at the end of a pass.
GlPassEnd(g) == [g EXCEPT !.attribEnabled = FALSE]

\* "Restore state set by GlesFrame that we just modified": Enable(BLEND),
\* Enable(SCISSOR_TEST), BindFramebuffer(FRAMEBUFFER, current_fbo) and
\* Viewport(saved).
GlRestore(g, saved) ==
    [g EXCEPT !.blend = TRUE, !.scissor = TRUE, !.fbo = saved.current_fbo,
              !.viewport = saved.viewport]

\* The GL state after the closure of Blur::render has run on state g.
GlAfterRender(g, list) ==
    LET saved == GlSave(g)
        down == GlPassEnd(GlDraws(GlPassBegin(GlEnter(g), "down"),
                                  DownDraws(list), list))
        up == GlPassEnd(GlDraws(GlPassBegin(down, "up"), UpDraws(list), list))
    IN  GlRestore([up EXCEPT !.fbo = "default"], saved)

\* Blur::render(frame, source, options) with a w x h source; sameContext says
\* whether the frame's context is the one that created the Blur.  The ensure!
\* checks come before frame.with_profiled_context, so a failed check returns
\* with no GL command issued (glEntered FALSE, no draws).  On success the
\* caller receives a second handle to entry 0.  gl is the state of the
\* frame's GL context when the call is made.
Render(w, h, passes, sameContext, gl) ==
    /\ blurCall.op # "render"
    /\ LET err == RenderError(w, h, passes, sameContext)
       IN  IF err = ""
           THEN /\ held' = held \cup {textures[1].id}
                /\ blurCall' = [op |-> "render", ok |-> TRUE, err |-> "",
                                w |-> w, h |-> h, passes |-> passes,
                                sameContext |-> sameContext,
                                glEntered |-> TRUE,
                                draws |-> DownDraws(textures) \o UpDraws(textures),
                                glBefore |-> gl,
                                glAfter |-> GlAfterRender(gl, textures),
                                returned |-> textures[1].id]
           ELSE /\ held' = held
                /\ blurCall' = [op |-> "render", ok |-> FALSE, err |-> err,
                                w |-> w, h |-> h, passes |-> passes,
                                sameContext |-> sameContext,
                                glEntered |-> FALSE,
                                draws |-> <<>>,
                                returned |-> NoTexture]
    /\ UNCHANGED <<textures, nextTexId, prepares>>
    /\ UNCHANGED otherThanBlur

\* The holder of a texture returned by Blur::render drops it.
ReleaseHandle(id) ==
    /\ id \in held
    /\ held' = held \ {id}
    /\ blurCall' = [op |-> "release"]
    /\ UNCHANGED <<textures, nextTexId, prepares>>
    /\ UNCHANGED otherThanBlur

SourceSizes ==
    {[w |-> MaxDim, h |-> 1], [w |-> 1, h |-> MaxDim], [w |-> MaxDim - 1, h |-> MaxDim]}
PassesInputs == (0..MaxPassesIn) \cup {U8Max}

InitBlur ==
    /\ InitRegionIdle
    /\ InitBlurIdle
    /\ InitFilterIdle
    /\ InitFbIdle
    /\ InitXrayIdle
    /\ InitCacheIdle
    /\ InitEffectIdle

NextBlur ==
    \/ \E s \in SourceSizes, passes \in PassesInputs, failAt \in 0..MaxFailAt :
           PrepareTextures(s.w, s.h, passes, failAt)
    \/ \E s \in SourceSizes, passes \in PassesInputs, sameContext \in BOOLEAN,
          gl \in GlEntryStates :
           Render(s.w, s.h, passes, sameContext, gl)
    \/ \E id \in held : ReleaseHandle(id)

SpecBlur == InitBlur /\ [][NextBlur]_vars

-----------------------------------------------------------------------------
(* Vocabulary of the region properties: cells, the boolean-grid oracle,    *)
(* bands and runs.  None of it uses the decomposer's definitions.          *)

SetMin(S) == CHOOSE m \in S : \A k \in S : m <= k
SetMax(S) == CHOOSE m \in S : \A k \in S : k <= m

Box(x1, y1, x2, y2) == [x |-> x1, y |-> y1, w |-> x2 - x1, h |-> y2 - y1]

\* The unit cell (cx, cy) lies in the half-open rectangle r.
ContainsCell(r, cx, cy) ==
    /\ r.x <= cx /\ cx < r.x + r.w
    /\ r.y <= cy /\ cy < r.y + r.h

\* The boolean grid painted in list order: the last rectangle containing the
\* cell decides.
Painted(rects, cx, cy) ==
    LET hits == {i \in 1..Len(rects) : ContainsCell(rects[i], cx, cy)}
    IN  hits # {} /\ rects[SetMax(hits)].kind = "Add"

OutputCovers(out, cx, cy) == \E i \in 1..Len(out) : ContainsCell(out[i], cx, cy)

XEdges(rects) ==
    {rects[i].x : i \in 1..Len(rects)} \cup {rects[i].x + rects[i].w : i \in 1..Len(rects)}
YEdges(rects) ==
    {rects[i].y : i \in 1..Len(rects)} \cup {rects[i].y + rects[i].h : i \in 1..Len(rects)}

\* Cells between the outermost edges of the input and of the output.
CellRange(edges) == IF edges = {} THEN {} ELSE (SetMin(edges) - 1)..SetMax(edges)

\* Smithay's Rectangle::overlaps on integer rectangles.
Overlaps(a, b) ==
    /\ a.x < b.x + b.w /\ b.x < a.x + a.w
    /\ a.y < b.y + b.h /\ b.y < a.y + a.h

\* Left ends of the maximal runs of painted cells in the row cy.
RunStarts(rects, cy) ==
    {a \in CellRange(XEdges(rects)) : Painted(rects, a, cy) /\ ~Painted(rects, a - 1, cy)}

\* Right end of the maximal run that starts at a.
RunEnd(rects, a, cy) ==
    CHOOSE b \in (a + 1)..(SetMax(XEdges(rects)) + 1) :
        /\ ~Painted(rects, b, cy)
        /\ \A c \in a..(b - 1) : Painted(rects, c, cy)

\* One rectangle per maximal run of the band [lo, hi), in ascending x.
ExpectedBand(rects, lo, hi) ==
    LET starts == SortSet(RunStarts(rects, lo))
    IN  [k \in 1..Len(starts) |-> Box(starts[k], lo, RunEnd(rects, starts[k], lo), hi)]

RECURSIVE ExpectedFrom(_, _, _)
ExpectedFrom(rects, ys, k) ==
    IF k >= Len(ys) THEN <<>>
    ELSE ExpectedBand(rects, ys[k], ys[k + 1]) \o ExpectedFrom(rects, ys, k + 1)

\* The band decomposition read off the painted grid: bands in ascending y.
ExpectedOutput(rects) == ExpectedFrom(rects, SortSet(YEdges(rects)), 1)

Done == regionPc = "done"

-----------------------------------------------------------------------------
\* C1: the rectangles returned by region_to_non_overlapping_rects are
\* pairwise non-overlapping and each has strictly positive width and
\* strictly positive height (regions of rectangles with non-negative sizes).
C1_NonOverlappingOutput ==
    Done =>
        \A i \in 1..Len(output) :
            /\ output[i].w > 0
            /\ output[i].h > 0
            /\ \A j \in (i + 1)..Len(output) : ~Overlaps(output[i], output[j])

\* A call on overlapping input that ends with several rectangles, a
\* Subtract among the input.
C1_Witness ==
    /\ Done
    /\ Len(output) >= 3
    /\ \E i, j \in 1..Len(region) :
           /\ i < j
           /\ region[j].kind = "Subtract"
           /\ Overlaps(region[i], region[j])

\* C2: a cell lies inside the union of the output rectangles iff the last
\* input rectangle containing the cell is an Add.
C2_CoveredAreaMatchesGrid ==
    Done =>
        \A cx \in CellRange(XEdges(region) \cup XEdges(output)) :
            \A cy \in CellRange(YEdges(region) \cup YEdges(output)) :
                OutputCovers(output, cx, cy) <=> Painted(region, cx, cy)

\* A call where a later Subtract cleared a cell an Add had set, and a later
\* Add set a cell a Subtract had cleared.
C2_Witness ==
    /\ Done
    /\ \E cx \in CellRange(XEdges(region)), cy \in CellRange(YEdges(region)) :
           /\ ~OutputCovers(output, cx, cy)
           /\ \E i \in 1..Len(region) :
                  region[i].kind = "Add" /\ ContainsCell(region[i], cx, cy)
    /\ \E cx \in CellRange(XEdges(region)), cy \in CellRange(YEdges(region)) :
           /\ OutputCovers(output, cx, cy)
           /\ \E i \in 1..Len(region) :
                  region[i].kind = "Subtract" /\ ContainsCell(region[i], cx, cy)


\* The distinct x and y edges of the input, as sorted sequences; net cell
\* <<i, j>> is the block between x edges i, i+1 and y edges j, j+1.
XLines(rects) == SortSet(XEdges(rects))
YLines(rects) == SortSet(YEdges(rects))

NetCells(rects) ==
    {c \in (1..(Len(XLines(rects)) - 1)) \X (1..(Len(YLines(rects)) - 1)) :
        Painted(rects, XLines(rects)[c[1]], YLines(rects)[c[2]])}

BlockCells(i, j, w, h) == (i..(i + w - 1)) \X (j..(j + h - 1))

\* Fewest pairwise-disjoint rectangles whose union is exactly the cell set S.
\* The topmost, then leftmost, cell of S is the top-left corner of the
\* rectangle that holds it; every extent of that rectangle is tried.
RECURSIVE MinPartition(_)
MinPartition(S) ==
    IF S = {} THEN 0
    ELSE LET top == SetMin({c[2] : c \in S})
             left == SetMin({c[1] : c \in {d \in S : d[2] = top}})
             span == Cardinality(S)
             fits == {e \in (1..span) \X (1..span) :
                         BlockCells(left, top, e[1], e[2]) \subseteq S}
         IN  1 + SetMin({MinPartition(S \ BlockCells(left, top, e[1], e[2])) : e \in fits})

\* Rectangles of the input with no area.
ZeroSized(rects) == {i \in 1..Len(rects) : rects[i].w = 0 \/ rects[i].h = 0}

\* C3 as stated: no list of pairwise-disjoint rectangles covering exactly the
\* same net area has fewer rectangles than the output.
C3_OutputIsMinimal == Done => Len(output) <= MinPartition(NetCells(region))

\* Indices of the output rectangles that lie in the band starting at lo.
InBand(out, lo) == {i \in 1..Len(out) : out[i].y = lo}

\* C3 as amended: every output rectangle spans exactly one Y band (the
\* interval between two consecutive distinct top/bottom edges of the input),
\* and a band holds exactly as many rectangles as the net area has maximal
\* x-runs in it, the fewest that can cover the band; rectangles of vertically
\* adjacent bands are not merged.
C3_MinimalWithinBands ==
    Done =>
        LET ys == YLines(region)
        IN  /\ \A i \in 1..Len(output) :
                   \E k \in 1..(Len(ys) - 1) :
                       output[i].y = ys[k] /\ output[i].y + output[i].h = ys[k + 1]
            /\ \A k \in 1..(Len(ys) - 1) :
                   Cardinality(InBand(output, ys[k])) = Cardinality(RunStarts(region, ys[k]))

\* A call whose output holds two rectangles of adjacent bands with the same
\* x extent: one rectangle would cover both, the list is not minimal.
C3_Witness ==
    /\ Done
    /\ \E i, j \in 1..Len(output) :
           /\ output[i].x = output[j].x
           /\ output[i].w = output[j].w
           /\ output[i].y + output[i].h = output[j].y
    /\ ZeroSized(region) = {}
    /\ Len(output) > MinPartition(NetCells(region))

\* C4: one rectangle per maximal x-run per Y band, bands in ascending y and
\* runs in ascending x; with the three results the claim spells out.
C4_OneRectPerSpanPerBand ==
    Done =>
        /\ output = ExpectedOutput(region)
        /\ region = <<Rect("Add", 0, 0, 10, 10)>> => output = <<Box(0, 0, 10, 10)>>
        /\ region = <<Rect("Add", 0, 0, 10, 10), Rect("Add", 5, 5, 15, 15)>>
               => output = <<Box(0, 0, 10, 5), Box(0, 5, 15, 10), Box(5, 10, 15, 15)>>
        /\ region = <<Rect("Add", 0, 0, 20, 20), Rect("Subtract", 5, 5, 15, 15)>>
               => output = <<Box(0, 0, 20, 5), Box(0, 5, 5, 15), Box(15, 5, 20, 15),
                             Box(0, 15, 20, 20)>>

\* The call on Add (0,0)-(20,20), Subtract (5,5)-(15,15) has returned: three
\* bands, the middle one with two runs.
C4_Witness ==
    /\ Done
    /\ region = <<Rect("Add", 0, 0, 20, 20), Rect("Subtract", 5, 5, 15, 15)>>
    /\ Len(output) = 4

\* Two Add rectangles of positive size with the same top and bottom.
TwoAddsInOneBand ==
    /\ Len(region) = 2
    /\ region[1].kind = "Add" /\ region[2].kind = "Add"
    /\ region[1].y = region[2].y /\ region[1].h = region[2].h
    /\ region[1].h > 0 /\ region[1].w > 0 /\ region[2].w > 0

\* C5: two Add rectangles with the same top and bottom whose x-ranges touch
\* or overlap give the single rectangle spanning both, in either input order;
\* with a gap between them they stay two rectangles.
C5_TouchingAddsMerge ==
    (Done /\ TwoAddsInOneBand) =>
        LET a == region[1]
            b == region[2]
            l == IF a.x <= b.x THEN a ELSE b
            r == IF a.x <= b.x THEN b ELSE a
        IN  IF r.x <= l.x + l.w
            THEN output = <<Box(Min2(a.x, b.x), a.y,
                                Max2(a.x + a.w, b.x + b.w), a.y + a.h)>>
            ELSE output = <<Box(l.x, l.y, l.x + l.w, l.y + l.h),
                            Box(r.x, r.y, r.x + r.w, r.y + r.h)>>

\* Two Adds that share an edge, the right-hand one first in the list, merged.
C5_Witness ==
    /\ Done
    /\ TwoAddsInOneBand
    /\ region[2].x + region[2].w = region[1].x
    /\ Len(output) = 1

\* C6: an empty rectangle list leaves the output empty whatever the buffer
\* held, and no rectangle the buffer held before the call is in the output.
C6_NoLeftovers ==
    Done =>
        /\ region = <<>> => output = <<>>
        /\ \A i \in 1..Len(output) : \A j \in 1..Len(prior) : output[i] # prior[j]
        /\ Len(output) = Len(ExpectedOutput(region))

\* The call on an empty list with a non-empty buffer has returned.
C6_Witness ==
    /\ Done
    /\ region = <<>>
    /\ prior # <<>>
    /\ output = <<>>

\* C7 as stated: the output list equals the output for the region with the
\* zero-width or zero-height rectangle removed.
C7_ZeroRectSameList ==
    Done =>
        \A i \in ZeroSized(region) :
            output = region_to_non_overlapping_rects(RemoveAt(region, i), <<>>)

\* The pieces of rectangle r cut along the horizontal lines in cuts.
CutRect(r, cuts) ==
    LET ys == SortSet({r.y, r.y + r.h} \cup {c \in cuts : r.y < c /\ c < r.y + r.h})
    IN  {Box(r.x, ys[k], r.x + r.w, ys[k + 1]) : k \in 1..(Len(ys) - 1)}

CutAll(out, cuts) == UNION {CutRect(out[i], cuts) : i \in 1..Len(out)}

\* C7 as amended: a zero-width or zero-height rectangle adds nothing to the
\* covered area, but its top and bottom still delimit bands: the output is the
\* output for the region without it, cut along the lines y and y + h of the
\* removed rectangle.
C7_ZeroRectOnlyCutsBands ==
    Done =>
        \A i \in ZeroSized(region) :
            LET without == region_to_non_overlapping_rects(RemoveAt(region, i), <<>>)
                cuts == {region[i].y, region[i].y + region[i].h}
            IN  /\ {output[k] : k \in 1..Len(output)} = CutAll(without, cuts)
                /\ Len(output) = Cardinality(CutAll(without, cuts))

\* A call where a zero-sized rectangle cut a band in two: the list differs
\* from the one without it.
C7_Witness ==
    /\ Done
    /\ \E i \in ZeroSized(region) :
           /\ Len(output) > Len(region_to_non_overlapping_rects(RemoveAt(region, i), <<>>))
           /\ Len(output) >= 2

\* Rectangles of the input with a negative width or height.
NegativeSized(rects) == {i \in 1..Len(rects) : rects[i].w < 0 \/ rects[i].h < 0}

\* C8: a rectangle with a negative width or height is treated as empty: the
\* output equals the output for the region without it, and no output
\* rectangle has a zero or negative width or height.
C8_NegativeTreatedAsEmpty ==
    Done =>
        /\ \A i \in 1..Len(output) : output[i].w > 0 /\ output[i].h > 0
        /\ \A i \in NegativeSized(region) :
               output = region_to_non_overlapping_rects(RemoveAt(region, i), <<>>)


-----------------------------------------------------------------------------
(* Properties of the texture pyramid.                                      *)

PrepareReturned == blurCall.op = "prepare"
PrepareSucceeded == PrepareReturned /\ blurCall.ok

\* The clamp as the claims state it, on a u8.
ClampedPasses(passes) == IF passes < 1 THEN 1 ELSE IF passes > 31 THEN 31 ELSE passes

IdsOf(list) == {list[i].id : i \in 1..Len(list)}

\* C9: after a successful prepare_textures the list has exactly p + 1
\* entries, p = clamp(passes, 1, 31), entry 0 has the size of the source, and
\* every next entry has size (max(1, w / 2), max(1, h / 2)) of the one before
\* it, whatever the list held before the call.
C9_PyramidShape ==
    PrepareSucceeded =>
        /\ Len(textures) = ClampedPasses(blurCall.passes) + 1
        /\ textures[1].w = blurCall.w
        /\ textures[1].h = blurCall.h
        /\ \A i \in 1..(Len(textures) - 1) :
               /\ textures[i + 1].w = (IF textures[i].w \div 2 < 1 THEN 1 ELSE textures[i].w \div 2)
               /\ textures[i + 1].h = (IF textures[i].h \div 2 < 1 THEN 1 ELSE textures[i].h \div 2)

\* A successful call on a one-entry list (only a failed call leaves fewer
\* than two entries) that was built for another source size.
C9_Witness ==
    /\ PrepareSucceeded
    /\ Len(blurCall.before) = 1
    /\ blurCall.before[1].w # blurCall.w
    /\ Len(textures) >= 3

\* The list before the call could be reused: entry 0 had the source's size
\* and was exclusively owned.
Reusable ==
    /\ blurCall.before # <<>>
    /\ blurCall.before[1].w = blurCall.w
    /\ blurCall.before[1].h = blurCall.h
    /\ blurCall.uniqueBefore

\* C10: on a reusable list, prepare_textures keeps the leading entries,
\* creates just the missing trailing ones and drops just those beyond p + 1,
\* so a repeat with the list already p + 1 long calls create_texture not at
\* all and leaves every entry the same texture; only a change of entry 0's
\* size, or entry 0 not being exclusively owned, recreates the whole list.
C10_ReuseInPlace ==
    PrepareReturned =>
        LET before == blurCall.before
            want == ClampedPasses(blurCall.passes) + 1
            common == IF Len(before) < want THEN Len(before) ELSE want
        IN  IF Reusable
            THEN /\ \A i \in 1..common : textures[i] = before[i]
                 /\ blurCall.ok => blurCall.created = want - common
                 /\ blurCall.ok => Len(textures) = want
                 /\ (blurCall.ok /\ Len(before) = want) =>
                        (textures = before /\ blurCall.created = 0)
            ELSE /\ IdsOf(textures) \cap IdsOf(before) = {}
                 /\ blurCall.ok => blurCall.created = want

\* A repeat that changed nothing: the list was already p + 1 long, for the
\* same size, and owned by the Blur alone.
C10_Witness ==
    /\ PrepareSucceeded
    /\ Reusable
    /\ Len(blurCall.before) = ClampedPasses(blurCall.passes) + 1
    /\ blurCall.created = 0
    /\ Len(textures) >= 3

-----------------------------------------------------------------------------
(* Blur::render, the contract checks                                       *)

\* A step in which Blur::render was called and returned.
RenderStep == blurCall.op # "render" /\ blurCall'.op = "render"

\* One of the four preconditions of Blur::render fails for the call just
\* made, judged on the list and the handles as they were before the call.
ContractViolated ==
    LET c == blurCall'
    IN  \/ ~c.sameContext
        \/ Len(textures) # ClampedPasses(c.passes) + 1
        \/ textures[1].w # c.w
        \/ textures[1].h # c.h
        \/ textures[1].id \in held

\* C11: when the frame is of another renderer context, the list length is
\* not clamp(passes, 1, 31) + 1, entry 0 has not the source's size, or entry
\* 0 is not exclusively owned, Blur::render returns an error, issues no GPU
\* command, returns no texture and leaves the texture list as it was.
C11_ViolationIsError ==
    [][(RenderStep /\ ContractViolated) =>
          /\ ~blurCall'.ok
          /\ blurCall'.err # ""
          /\ ~blurCall'.glEntered
          /\ blurCall'.draws = <<>>
          /\ blurCall'.returned = NoTexture
          /\ textures' = textures
          /\ held' = held]_vars

\* A render refused only because entry 0 has a second live handle: context,
\* length and size were all right.
C11_Witness ==
    /\ blurCall.op = "render"
    /\ ~blurCall.ok
    /\ blurCall.sameContext
    /\ Len(textures) = ClampedPasses(blurCall.passes) + 1
    /\ textures[1].w = blurCall.w
    /\ textures[1].h = blurCall.h
    /\ textures[1].id \in held

-----------------------------------------------------------------------------
(* EffectSubregion, src/render_helpers/background_effect.rs                *)
(*                                                                         *)
(* f64 values are kept as integers counting 1/Frac units, so scaling an    *)
(* integer coordinate, adding an offset and subtracting the crop origin    *)
(* are exact, as they are in f64 for the magnitudes used here.             *)

\* Subregion rectangles: x in 0..MaxSubCoord, w in 1..MaxSubSize, two rows.
MaxSubCoord == 2
MaxSubSize == 2
\* Scale factors 1/Frac .. MaxScale/Frac on each axis.
MaxScale == 3
\* Crop and destination sizes go up to MaxCrop (crop in 1/Frac units).
MaxCrop == 4

\* i32 to f64.
ToF64(n) == n * Frac

\* Point::upscale(scale) of a point holding integer coordinates.
Upscale(pt, scale) ==
    [x |-> (pt.x * scale.x) \div Frac, y |-> (pt.y * scale.y) \div Frac]

\* EffectSubregion::iter: the transformed top-left and bottom-right corners
\* of every rectangle, in list order.
SubregionIter(sub) ==
    [i \in 1..Len(sub.rects) |->
        LET r == sub.rects[i]
            a0 == [x |-> ToF64(r.x), y |-> ToF64(r.y)]
            b0 == [x |-> ToF64(r.x) + ToF64(r.w), y |-> ToF64(r.y) + ToF64(r.h)]
            a1 == Upscale(a0, sub.scale)
            b1 == Upscale(b0, sub.scale)
        IN  [a |-> [x |-> a1.x + sub.offset.x, y |-> a1.y + sub.offset.y],
             b |-> [x |-> b1.x + sub.offset.x, y |-> b1.y + sub.offset.y]]]

\* f64::round of the quotient num / den, den > 0: to nearest, halves away
\* from zero.
RoundDiv(num, den) ==
    IF num >= 0 THEN (2 * num + den) \div (2 * den)
    ELSE 0 - ((2 * (0 - num) + den) \div (2 * den))

\* Point::to_physical_precise_round(scale) with scale = dst.size / crop.size:
\* a coordinate v (1/Frac units) times dstLen over cropLen (1/Frac units).
ToPhysicalPreciseRound(pt, dst, crop) ==
    [x |-> RoundDiv(pt.x * dst.w, crop.w), y |-> RoundDiv(pt.y * dst.h, crop.h)]

\* Mutant of RoundedRect: location and size are rounded, not the two corners.
RoundedRectLocSize(ia, ib, dst, crop) ==
    LET pa == ToPhysicalPreciseRound(ia, dst, crop)
        sz == ToPhysicalPreciseRound([x |-> ib.x - ia.x, y |-> ib.y - ia.y], dst, crop)
    IN  [x |-> pa.x, y |-> pa.y, w |-> sz.x, h |-> sz.y]

\* Round the extremities to physical pixels and build the rectangle.
RoundedRect(ia, ib, dst, crop) ==
    LET pa == ToPhysicalPreciseRound(ia, dst, crop)
        pb == ToPhysicalPreciseRound(ib, dst, crop)
    IN  FromExtremities(pa.x, pa.y, pb.x, pb.y)

\* smithay's Rectangle::overlaps: exclusive comparisons on both axes.
RectOverlaps(r, d) ==
    /\ r.x < d.x + d.w
    /\ d.x < r.x + r.w
    /\ r.y < d.y + d.h
    /\ d.y < r.y + r.h

\* smithay's Rectangle::intersection: <<>> for None, <<rect>> for Some(rect).
Intersection(r, d) ==
    IF ~RectOverlaps(r, d) THEN <<>>
    ELSE <<FromExtremities(Max2(r.x, d.x), Max2(r.y, d.y),
                           Min2(r.x + r.w, d.x + d.w), Min2(r.y + r.h, d.y + d.h))>>

\* "Intersect with each damage rect": the pushes for one rounded rectangle.
RECURSIVE IntersectEach(_, _, _)
IntersectEach(r, damage, j) ==
    IF j > Len(damage) THEN <<>>
    ELSE Intersection(r, damage[j]) \o IntersectEach(r, damage, j + 1)

\* "Convert to dst-relative" and "Intersect with crop" for one corner pair:
\* hit is FALSE when the loop continues with the next rectangle.
CropClipped(c, crop) ==
    LET a == [x |-> c.a.x - crop.x, y |-> c.a.y - crop.y]
        b == [x |-> c.b.x - crop.x, y |-> c.b.y - crop.y]
        ia == [x |-> Max2(a.x, 0), y |-> Max2(a.y, 0)]
        ib == [x |-> Min2(b.x, crop.w), y |-> Min2(b.y, crop.h)]
    IN  [hit |-> ~(ib.x <= ia.x \/ ib.y <= ia.y), ia |-> ia, ib |-> ib]

\* The rounded rectangle r of every subregion rectangle, <<>> for one that
\* does not intersect the crop.
RoundedRects(sub, crop, dst) ==
    LET corners == SubregionIter(sub)
    IN  [i \in 1..Len(corners) |->
            LET c == CropClipped(corners[i], crop)
            IN  IF c.hit THEN <<RoundedRect(c.ia, c.ib, dst, crop)>> ELSE <<>>]

\* The pushes of the loop over the subregion from rectangle i on.
RECURSIVE FilterFrom(_, _, _)
FilterFrom(rounded, damage, i) ==
    IF i > Len(rounded) THEN <<>>
    ELSE (IF rounded[i] = <<>> THEN <<>> ELSE IntersectEach(rounded[i][1], damage, 1))
         \o FilterFrom(rounded, damage, i + 1)

\* EffectSubregion::filter_damage(crop, dst, damage, &mut filtered).
FilterDamage(crop, dst, damage) ==
    /\ fdCall.op = "none"
    /\ LET rounded == RoundedRects(subregion, crop, dst)
       IN  /\ filtered' = filtered \o FilterFrom(rounded, damage, 1)
           /\ fdCall' = [op |-> "filter_damage", crop |-> crop, dst |-> dst,
                         damage |-> damage, rounded |-> rounded]
    /\ UNCHANGED subregion
    /\ UNCHANGED otherThanFilter

\* Offsets -MaxOffset/Frac .. MaxOffset/Frac along x.
MaxOffset == 1

\* Rectangles of a subregion: positive sizes, two rows of height one.
SubRects ==
    [x : 0..MaxSubCoord, y : 0..1, w : 1..MaxSubSize, h : {1}]

\* Two rectangles share a cell.
SubRectsOverlap(r, q) ==
    /\ r.x < q.x + q.w /\ q.x < r.x + r.w
    /\ r.y < q.y + q.h /\ q.y < r.y + r.h

\* EffectSubregion.rects holds non-overlapping rectangles: here none, one or
\* two of them.
SubRectLists ==
    {<<>>} \cup {<<r>> : r \in SubRects}
           \cup {pr \in {<<r, q>> : r \in SubRects, q \in SubRects} :
                     ~SubRectsOverlap(pr[1], pr[2])}

Subregions ==
    [rects : SubRectLists,
     scale : [x : 1..MaxScale, y : 1..MaxScale],
     offset : [x : (0 - MaxOffset)..MaxOffset, y : {0}]]

\* Crop rectangles (1/Frac units), an empty one among them.
Crops == [x : 0..1, y : {0}, w : {0, MaxCrop - 1, MaxCrop}, h : {MaxCrop}]

\* Destination rectangles (physical pixels).
Dsts == [x : {0}, y : {0}, w : {MaxCrop - 1, MaxCrop}, h : {MaxCrop}]

\* Damage lists (physical pixels, destination-relative).
WholeDamage == [x |-> 0, y |-> 0, w |-> MaxCrop, h |-> MaxCrop]
ColumnDamage == [x |-> 1, y |-> 0, w |-> 1, h |-> MaxCrop]
DamageLists ==
    {<<>>, <<WholeDamage>>, <<ColumnDamage>>, <<ColumnDamage, WholeDamage>>}

InitFilter ==
    /\ subregion \in Subregions
    /\ filtered = <<>>
    /\ fdCall = [op |-> "none"]
    /\ InitRegionIdle
    /\ InitBlurIdle
    /\ InitFbIdle
    /\ InitXrayIdle
    /\ InitCacheIdle
    /\ InitEffectIdle

NextFilter ==
    \E crop \in Crops, dst \in Dsts, damage \in DamageLists :
        FilterDamage(crop, dst, damage)

SpecFilter == InitFilter /\ [][NextFilter]_vars

-----------------------------------------------------------------------------
(* Properties of filter_damage                                             *)

FilterReturned == fdCall.op = "filter_damage"

\* Rectangles i and j of the subregion abut in integer space: the right edge
\* of i is the left edge of j, or the bottom of i is the top of j.
AbutX(i, j) == subregion.rects[i].x + subregion.rects[i].w = subregion.rects[j].x
AbutY(i, j) == subregion.rects[i].y + subregion.rects[i].h = subregion.rects[j].y

\* Both rectangles got a rounded physical rectangle.
BothRounded(i, j) == fdCall.rounded[i] # <<>> /\ fdCall.rounded[j] # <<>>

\* C12: two subregion rectangles that abut in integer space, and for both of
\* which filter_damage computes a rounded physical rectangle, share that
\* edge in physical pixels: the right (bottom) edge of the one is the left
\* (top) edge of the other, whatever the scale, offset, crop and destination.
C12_AbuttingStayAbutting ==
    FilterReturned =>
        \A i, j \in 1..Len(subregion.rects) :
            BothRounded(i, j) =>
                LET r == fdCall.rounded[i][1]
                    q == fdCall.rounded[j][1]
                IN  /\ AbutX(i, j) => r.x + r.w = q.x
                    /\ AbutY(i, j) => r.y + r.h = q.y

\* Two horizontally abutting rectangles, both rounded at a fractional scale
\* after a fractional offset, meeting strictly inside the destination.
C12_Witness ==
    /\ FilterReturned
    /\ Len(subregion.rects) = 2
    /\ AbutX(1, 2)
    /\ BothRounded(1, 2)
    /\ subregion.scale.x % Frac # 0
    /\ subregion.offset.x % Frac # 0
    /\ fdCall.dst.w # fdCall.crop.w
    /\ fdCall.rounded[1][1].w > 0
    /\ fdCall.rounded[2][1].w > 0

\* The image of subregion rectangle i (scaled and offset, 1/Frac units)
\* intersects the crop of the call in a set of positive area.
ImageHitsCrop(i) ==
    LET r == subregion.rects[i]
        c == fdCall.crop
        ax == r.x * subregion.scale.x + subregion.offset.x
        bx == (r.x + r.w) * subregion.scale.x + subregion.offset.x
        ay == r.y * subregion.scale.y + subregion.offset.y
        by == (r.y + r.h) * subregion.scale.y + subregion.offset.y
    IN  /\ (IF ax > c.x THEN ax ELSE c.x) < (IF bx < c.x + c.w THEN bx ELSE c.x + c.w)
        /\ (IF ay > c.y THEN ay ELSE c.y) < (IF by < c.y + c.h THEN by ELSE c.y + c.h)

\* The common part of two physical rectangles, as corner arithmetic.
CommonPart(r, d) ==
    Box(IF r.x > d.x THEN r.x ELSE d.x,
        IF r.y > d.y THEN r.y ELSE d.y,
        IF r.x + r.w < d.x + d.w THEN r.x + r.w ELSE d.x + d.w,
        IF r.y + r.h < d.y + d.h THEN r.y + r.h ELSE d.y + d.h)

\* The list the claim describes: rectangle by rectangle, damage by damage,
\* every common part of positive width and height.
RECURSIVE NonEmptyPartsFrom(_, _)
NonEmptyPartsFrom(i, j) ==
    IF i > Len(subregion.rects) THEN <<>>
    ELSE IF j > Len(fdCall.damage) \/ ~ImageHitsCrop(i) THEN NonEmptyPartsFrom(i + 1, 1)
    ELSE LET part == CommonPart(fdCall.rounded[i][1], fdCall.damage[j])
         IN  (IF part.w > 0 /\ part.h > 0 THEN <<part>> ELSE <<>>)
             \o NonEmptyPartsFrom(i, j + 1)

\* C13: filter_damage emits, for every subregion rectangle whose image
\* intersects the crop and every damage rectangle, the intersection of the
\* rounded rectangle with the damage rectangle, only when it has positive
\* width and height; a rectangle whose image misses the crop emits nothing.
C13_OnlyNonEmptyIntersections ==
    FilterReturned => filtered = NonEmptyPartsFrom(1, 1)

-----------------------------------------------------------------------------
(* FramebufferEffect, src/render_helpers/framebuffer_effect.rs             *)
(*                                                                         *)
(* Option values are sequences of length zero (None) or one (Some).  The   *)
(* Blur of the Inner is the Blur of the blur section: textures, held and   *)
(* nextTexId.  The frame's transformation is Transform::Normal.            *)

\* Side of the output in physical pixels.
MaxOut == 4
\* Side of a destination rectangle.
DstSide == 2
\* Frames (render, capture, draw) in a behaviour.
MaxFrames == 2
\* create_texture may fail at its 1st..MaxCreateFailAt-th call of a capture.
MaxCreateFailAt == 3

\* Rectangle::from_size(frame.output_size())
OutputRect == [x |-> 0, y |-> 0, w |-> MaxOut, h |-> MaxOut]

\* Mutant of NewInner: the Inner is created with a Blur whatever Blur::new
\* returned.
NewInnerAlwaysBlur(program, blur) ==
    [program |-> program, framebuffer |-> <<>>, blur |-> TRUE, intermediate |-> <<>>]

\* Inner::new(renderer, blur); blur is whether Blur::new returned a Blur,
\* which it does exactly when the renderer has the blur shader.
NewInner(program, blur) ==
    [program |-> program, framebuffer |-> <<>>, blur |-> blur, intermediate |-> <<>>]

\* FramebufferEffect::render(renderer, params, blur_options, ..): creates the
\* Inner on first use (programOk, shaderOk: whether the postprocess program
\* and the blur shader are available) and returns the element of the frame,
\* None when blur is requested but the Inner has no Blur.
FbRender(geometry, sub, scale, blur_options, programOk, shaderOk) ==
    /\ fbFrames < MaxFrames
    /\ \/ fbCall.op \in {"none", "draw"}
       \/ fbCall.op = "render" /\ fbElem = <<>>
    /\ LET inner == IF fbInner = <<>> THEN NewInner(programOk, shaderOk) ELSE fbInner[1]
           declined == blur_options # <<>> /\ ~inner.blur
       IN  /\ fbInner' = <<inner>>
           /\ fbElem' = IF declined THEN <<>>
                        ELSE <<[geometry |-> geometry, subregion |-> sub, scale |-> scale,
                                blur_options |-> blur_options]>>
           /\ fbCall' = [op |-> "render", returned |-> ~declined,
                         blurRequested |-> blur_options # <<>>,
                         created |-> fbInner = <<>>, shaderOk |-> shaderOk]
    /\ fbFrames' = fbFrames + 1
    /\ UNCHANGED blurVars
    /\ UNCHANGED otherThanFb

\* The size of the capture texture: src.size scaled by the clamp and by the
\* element's scale (1/Frac units), rounded.
CaptureSize(src, dst, clamped, scale) ==
    [w |-> RoundDiv(src.w * clamped.w * scale, dst.w * Frac * Frac),
     h |-> RoundDiv(src.h * clamped.h * scale, dst.h * Frac * Frac)]

\* Mutant of ClearIntermediate: the intermediate of the earlier capture is
\* left in place.
KeepIntermediate(inner0) == inner0

\* "inner.intermediate = None" at the start of capture_framebuffer.
ClearIntermediate(inner0) == [inner0 EXCEPT !.intermediate = <<>>]

\* Mutant of HeldAfterClear: the handle of the earlier intermediate stays
\* alive through the capture.
HeldAfterClearKept(inner0, handles) == handles

\* The texture handles alive outside the pyramid once the earlier
\* intermediate has been dropped by "inner.intermediate = None".
HeldAfterClear(inner0, handles) ==
    IF inner0.intermediate = <<>> THEN handles
    ELSE handles \ {inner0.intermediate[1].id}

\* Mutant of KeepsFramebuffer: a capture texture is kept whatever its size.
KeepsFramebufferAnySize(framebuffer, size) ==
    framebuffer # <<>>

\* "Recreate framebuffer if needed": a texture of another size is dropped,
\* and the one the Inner then holds is used.
KeepsFramebuffer(framebuffer, size) ==
    /\ framebuffer # <<>>
    /\ framebuffer[1].w = size.w
    /\ framebuffer[1].h = size.h

\* What capture_framebuffer leaves and returns.  The fields of the result:
\* inner, textures, held, nextTexId (the state), ok (Ok or Err), and what
\* happened on the way: clamped, blit, prepare and render.
CaptureOutcome(elem, inner0, src, dst, failAt, sameContext, blitOk) ==
    LET dropped == ClearIntermediate(inner0)
        heldA == HeldAfterClear(inner0, held)
        clampedOpt == Intersection(dst, OutputRect)
        none == [inner |-> dropped, textures |-> textures, held |-> heldA,
                 nextTexId |-> nextTexId, ok |-> TRUE, clamped |-> clampedOpt,
                 blit |-> <<>>, prepare |-> "none", render |-> "none"]
    IN  IF clampedOpt = <<>> THEN none
        ELSE
        LET clamped == clampedOpt[1]
            size == CaptureSize(src, dst, clamped, elem.scale)
            keepFb == KeepsFramebuffer(inner0.framebuffer, size)
            fbCreates == IF keepFb THEN 0 ELSE 1
        IN  IF ~keepFb /\ failAt = 1
            THEN [none EXCEPT !.inner = [dropped EXCEPT !.framebuffer = <<>>],
                              !.ok = FALSE]
            ELSE
            LET fb == IF keepFb THEN inner0.framebuffer[1]
                      ELSE [id |-> nextTexId, w |-> size.w, h |-> size.h]
                firstId == nextTexId + fbCreates
                zipped == inner0.blur /\ elem.blur_options # <<>>
                passes == IF elem.blur_options # <<>> THEN elem.blur_options[1] ELSE 0
                prep == PrepareOutcome(textures, heldA, firstId, fb.w, fb.h, passes,
                                       Max2(0, failAt - fbCreates))
                list1 == IF zipped THEN prep.list ELSE textures
                nextId == IF zipped THEN firstId + prep.made ELSE firstId
                blurLive == zipped /\ prep.ok
                withFb == [dropped EXCEPT !.framebuffer = <<fb>>]
                prepared == IF ~zipped THEN "none" ELSE IF prep.ok THEN "ok" ELSE "failed"
                blitted == [none EXCEPT !.inner = withFb, !.textures = list1,
                                        !.nextTexId = nextId, !.blit = <<clamped>>,
                                        !.prepare = prepared]
            IN  IF ~blitOk THEN [blitted EXCEPT !.ok = FALSE]
                ELSE IF elem.blur_options = <<>>
                THEN [blitted EXCEPT !.inner = [withFb EXCEPT !.intermediate = <<fb>>]]
                ELSE IF ~blurLive THEN blitted
                ELSE IF RenderErrorOn(list1, heldA, fb.w, fb.h, passes, sameContext) # ""
                THEN [blitted EXCEPT !.render = "failed"]
                ELSE [blitted EXCEPT !.inner = [withFb EXCEPT !.intermediate = <<list1[1]>>],
                                     !.held = heldA \cup {list1[1].id},
                                     !.render = "ok"]

\* FramebufferEffectElement::capture_framebuffer(frame, src, dst).
\* create_texture fails at its failAt-th call of this capture (0: never),
\* sameContext says whether the frame is of the Blur's renderer context,
\* blitOk whether glGetError reports no error after the blit.  created
\* counts the textures the call created.
CaptureFramebuffer(src, dst, failAt, sameContext, blitOk) ==
    /\ fbCall.op = "render"
    /\ fbElem # <<>>
    /\ LET out == CaptureOutcome(fbElem[1], fbInner[1], src, dst, failAt, sameContext, blitOk)
       IN  /\ fbInner' = <<out.inner>>
           /\ textures' = out.textures
           /\ held' = out.held
           /\ nextTexId' = out.nextTexId
           /\ fbCall' = [op |-> "capture", ok |-> out.ok, src |-> src, dst |-> dst,
                         failAt |-> failAt, sameContext |-> sameContext, blitOk |-> blitOk,
                         clamped |-> out.clamped, blit |-> out.blit,
                         prepare |-> out.prepare, render |-> out.render,
                         fbBefore |-> fbInner[1].framebuffer,
                         created |-> out.nextTexId - nextTexId]
    /\ UNCHANGED <<fbElem, fbFrames, prepares, blurCall>>
    /\ UNCHANGED otherThanFb

\* "Adjust for clamped dst": the retain_mut over the filtered damage.
RECURSIVE ClampDamage(_, _, _, _)
ClampDamage(list, r, off, i) ==
    IF i > Len(list) THEN <<>>
    ELSE LET part == Intersection(list[i], r)
         IN  (IF part = <<>> THEN <<>>
              ELSE <<[part[1] EXCEPT !.x = part[1].x - off.x, !.y = part[1].y - off.y]>>)
             \o ClampDamage(list, r, off, i + 1)

\* Mutant of AdjustedCrop: the unclamped source is used.
UnclampedCrop(src, dst, clamped) ==
    [x |-> [n |-> src.x * dst.w, d |-> dst.w],
     y |-> [n |-> src.y * dst.h, d |-> dst.h],
     w |-> [n |-> src.w * dst.w, d |-> dst.w],
     h |-> [n |-> src.h * dst.h, d |-> dst.h]]

\* "Adjust src proportionally to the dst clamping".  The coordinates are
\* fractions n / d of 1/Frac units with d the destination's width or height:
\* src_loc + clamp_offset * (src.size / dst.size) and
\* clamped_dst.size * (src.size / dst.size).
AdjustedCrop(src, dst, clamped) ==
    [x |-> [n |-> src.x * dst.w + (clamped.x - dst.x) * src.w, d |-> dst.w],
     y |-> [n |-> src.y * dst.h + (clamped.y - dst.y) * src.h, d |-> dst.h],
     w |-> [n |-> clamped.w * src.w, d |-> dst.w],
     h |-> [n |-> clamped.h * src.h, d |-> dst.h]]

\* Mutant of SubregionDamage: a subregion without rectangles counts as no
\* subregion.
SubregionDamageEmptyAsAbsent(elem, src, dst, damage) ==
    LET crop == [src EXCEPT !.x = src.x + elem.geometry.x, !.y = src.y + elem.geometry.y]
    IN  IF elem.subregion # <<>> /\ elem.subregion[1].rects # <<>>
        THEN FilterFrom(RoundedRects(elem.subregion[1], crop, dst), damage, 1)
        ELSE damage

\* "Filter damage by subregion": what filter_damage pushes when there is a
\* subregion, the given damage otherwise.
SubregionDamage(elem, src, dst, damage) ==
    LET crop == [src EXCEPT !.x = src.x + elem.geometry.x, !.y = src.y + elem.geometry.y]
    IN  IF elem.subregion # <<>>
        THEN FilterFrom(RoundedRects(elem.subregion[1], crop, dst), damage, 1)
        ELSE damage

\* The damage left for the draw: filtered by the subregion when there is
\* one, then cut to the clamped destination and made relative to it.
RemainingDamage(elem, src, dst, clamped, damage) ==
    LET inSub == SubregionDamage(elem, src, dst, damage)
        off == [x |-> clamped.x - dst.x, y |-> clamped.y - dst.y]
    IN  IF clamped # dst
        THEN ClampDamage(inSub, [x |-> off.x, y |-> off.y, w |-> clamped.w, h |-> clamped.h],
                         off, 1)
        ELSE inSub

\* Mutant of FbDrawCalls: the draw is issued whatever damage is left.
FbDrawCallsAlways(inner, src, dst, clamped, remaining) ==
    <<[texture |-> inner.intermediate[1], dst |-> clamped, damage |-> remaining,
       crop |-> AdjustedCrop(src, dst, clamped), withProgram |-> inner.program]>>

\* The calls of frame.render_texture_from_to made by draw once it has a
\* texture and a clamped destination: none when no damage is left.  The crop
\* goes into the uniforms when the Inner has a program.
FbDrawCalls(inner, src, dst, clamped, remaining) ==
    IF remaining = <<>> THEN <<>>
    ELSE <<[texture |-> inner.intermediate[1], dst |-> clamped, damage |-> remaining,
            crop |-> AdjustedCrop(src, dst, clamped), withProgram |-> inner.program]>>

\* FramebufferEffectElement::draw(frame, src, dst, damage, _).  drawOk is
\* the result of frame.render_texture_from_to when it is called.
FbDrawCall(src, dst, damage, drawOk) ==
    /\ fbElem # <<>>
    /\ LET inner == fbInner[1]
           clampedOpt == Intersection(dst, OutputRect)
           reaches == inner.intermediate # <<>> /\ clampedOpt # <<>>
           remaining == IF reaches
                        THEN RemainingDamage(fbElem[1], src, dst, clampedOpt[1], damage)
                        ELSE <<>>
           calls == IF reaches THEN FbDrawCalls(inner, src, dst, clampedOpt[1], remaining)
                    ELSE <<>>
       IN  fbCall' = [op |-> "draw", captured |-> fbCall.op = "capture",
                      ok |-> (calls = <<>> \/ drawOk), src |-> src,
                      dst |-> dst, damage |-> damage, hadTexture |-> inner.intermediate # <<>>,
                      clamped |-> clampedOpt,
                      inSubregion |-> IF reaches
                                      THEN SubregionDamage(fbElem[1], src, dst, damage)
                                      ELSE <<>>,
                      remaining |-> remaining, drawCalls |-> calls]
    /\ UNCHANGED <<fbInner, fbElem, fbFrames>>
    /\ UNCHANGED blurVars
    /\ UNCHANGED otherThanFb

\* The draw of an element after its capture in the frame.
FbDraw(src, dst, damage, drawOk) ==
    /\ fbCall.op = "capture"
    /\ FbDrawCall(src, dst, damage, drawOk)

\* The draw of an element whose capture was not called in the frame.
FbDrawUncaptured(src, dst, damage, drawOk) ==
    /\ fbCall.op = "render"
    /\ FbDrawCall(src, dst, damage, drawOk)

\* Destinations: inside the output, across its left, top-left and
\* bottom-right edges, and wholly outside it.
FbDsts ==
    {[x |-> p[1], y |-> p[2], w |-> DstSide, h |-> DstSide] :
        p \in {<<1, 1>>, <<0 - 1, 0>>, <<0 - 1, 0 - 1>>, <<MaxOut - 1, MaxOut - 1>>,
               <<0 - DstSide, 0>>}}

\* Sources (1/Frac units): the whole element and a cropped part of it.
FbSrcs ==
    {[x |-> 0, y |-> 0, w |-> DstSide * Frac, h |-> DstSide * Frac],
     [x |-> 1, y |-> 0, w |-> DstSide * Frac + 1, h |-> DstSide * Frac]}

\* Subregions of an element: none, one rectangle, two abutting rectangles
\* at half scale.
FbSubregions ==
    {<<>>,
     <<[rects |-> <<[x |-> 0, y |-> 0, w |-> 1, h |-> 1]>>,
        scale |-> [x |-> Frac, y |-> Frac], offset |-> [x |-> 0, y |-> 0]]>>,
     <<[rects |-> <<[x |-> 1, y |-> 0, w |-> 1, h |-> 2], [x |-> 2, y |-> 0, w |-> 2, h |-> 2]>>,
        scale |-> [x |-> 1, y |-> Frac], offset |-> [x |-> 1, y |-> 0]]>>}

\* Damage lists of a draw (destination-relative).
FbDamageLists ==
    {<<>>,
     <<[x |-> 0, y |-> 0, w |-> DstSide, h |-> DstSide]>>,
     <<[x |-> 0, y |-> 0, w |-> 1, h |-> 1]>>,
     <<[x |-> 1, y |-> 1, w |-> 1, h |-> 1], [x |-> 0, y |-> 0, w |-> 1, h |-> DstSide]>>}

InitFb ==
    /\ InitFbIdle
    /\ InitRegionIdle
    /\ InitBlurIdle
    /\ InitFilterIdle
    /\ InitXrayIdle
    /\ InitCacheIdle
    /\ InitEffectIdle

NextFb ==
    \/ \E sub \in FbSubregions, blur_options \in {<<>>, <<1>>},
          programOk \in BOOLEAN, shaderOk \in BOOLEAN :
           FbRender([x |-> 0, y |-> 0], sub, Frac, blur_options, programOk, shaderOk)
    \/ \E src \in FbSrcs, dst \in FbDsts, failAt \in 0..MaxCreateFailAt,
          sameContext \in BOOLEAN, blitOk \in BOOLEAN :
           CaptureFramebuffer(src, dst, failAt, sameContext, blitOk)
    \/ \E src \in FbSrcs, dst \in FbDsts, damage \in FbDamageLists, drawOk \in BOOLEAN :
           FbDraw(src, dst, damage, drawOk)

SpecFb == InitFb /\ [][NextFb]_vars

-----------------------------------------------------------------------------
(* Properties of the framebuffer effect                                    *)

CaptureReturned == fbCall.op = "capture"
DrawReturned == fbCall.op = "draw"

\* The part of a destination that lies on the output.
ClampToOutput(dst) ==
    Box(IF dst.x > 0 THEN dst.x ELSE 0,
        IF dst.y > 0 THEN dst.y ELSE 0,
        IF dst.x + dst.w < MaxOut THEN dst.x + dst.w ELSE MaxOut,
        IF dst.y + dst.h < MaxOut THEN dst.y + dst.h ELSE MaxOut)

\* The destination lies wholly on the output.
InsideOutput(dst) == ClampToOutput(dst) = dst

\* The fraction q equals a + b * c / d.
FractionIs(q, a, b, c, d) == q.n * d = (a * d + b * c) * q.d

\* C15: capture blits from, and draw composites into, the destination
\* clamped to the output; the crop of the draw is the source moved by
\* (clamped.loc - dst.loc) * (src.size / dst.size) and sized
\* clamped.size * (src.size / dst.size), which is the unclamped source when
\* the destination lies wholly on the output.
C15_ClampedProportionally ==
    /\ (CaptureReturned /\ fbCall.blit # <<>>) =>
           fbCall.blit[1] = ClampToOutput(fbCall.dst)
    /\ DrawReturned =>
           \A k \in 1..Len(fbCall.drawCalls) :
               LET c == fbCall.drawCalls[k]
                   src == fbCall.src
                   dst == fbCall.dst
                   cl == ClampToOutput(dst)
               IN  /\ c.dst = cl
                   /\ FractionIs(c.crop.x, src.x, cl.x - dst.x, src.w, dst.w)
                   /\ FractionIs(c.crop.y, src.y, cl.y - dst.y, src.h, dst.h)
                   /\ FractionIs(c.crop.w, 0, cl.w, src.w, dst.w)
                   /\ FractionIs(c.crop.h, 0, cl.h, src.h, dst.h)
                   /\ InsideOutput(dst) =>
                          /\ c.crop.x.n = src.x * c.crop.x.d
                          /\ c.crop.y.n = src.y * c.crop.y.d
                          /\ c.crop.w.n = src.w * c.crop.w.d
                          /\ c.crop.h.n = src.h * c.crop.h.d

\* A draw into a destination that crosses the top-left corner of the
\* output, from a cropped source.
C15_Witness ==
    /\ DrawReturned
    /\ Len(fbCall.drawCalls) = 1
    /\ fbCall.dst.x < 0
    /\ fbCall.dst.y < 0
    /\ fbCall.src.x # 0
    /\ fbCall.drawCalls[1].dst # fbCall.dst
    /\ fbCall.drawCalls[1].withProgram

\* The capture asked for blur and the blur failed: prepare_textures or
\* Blur::render returned an error, while the blit itself went through.
BlurFailedInCapture ==
    /\ CaptureReturned
    /\ fbElem[1].blur_options # <<>>
    /\ fbCall.blit # <<>>
    /\ fbCall.blitOk
    /\ (fbCall.prepare = "failed" \/ fbCall.render = "failed")

\* C16: when blur is requested and preparing or running it fails, the
\* capture returns success and the intermediate texture is the raw capture
\* texture, so that the following draw composites the unblurred content.
C16_FallsBackToUnblurred ==
    BlurFailedInCapture =>
        /\ fbCall.ok
        /\ fbInner[1].framebuffer # <<>>
        /\ fbInner[1].intermediate = fbInner[1].framebuffer

-----------------------------------------------------------------------------
(* Xray, src/render_helpers/xray.rs                                        *)
(*                                                                         *)
(* Logical f64 coordinates are integers counting 1/Frac units, zoom counts *)
(* 1/Frac as well.  One render target and one frame are modelled.  The     *)
(* EffectBuffer (render_helpers/effect_buffer.rs) is known by what the     *)
(* design says of it: prepare recaptures a stale buffer and reports        *)
(* whether a texture is available, render hands out the current texture    *)
(* without capturing.  Its scale is taken as 1 and its logical size as the *)
(* size of the workspace, so a source rectangle is kept in logical units.  *)

\* Xray::render calls and XrayElement::draw calls in the frame.
MaxXrayRenders == 2
MaxXrayDraws == 1
\* Width of a workspace, and the height of everything.
WsWidth == 4
WsHeight == 2

\* EffectBuffer::prepare(renderer, blur): recaptures if stale, and bumps
\* the commit counter when what it captured differs from the previous
\* commit (differs).
BufferPrepare(buf, differs) ==
    [buf EXCEPT !.prepares = @ + 1,
                !.captures = IF buf.stale THEN @ + 1 ELSE @,
                !.commit = IF buf.stale /\ differs THEN @ + 1 ELSE @,
                !.stale = FALSE]

\* The content behind the buffer changes: the next prepare recaptures.
BufferInvalidate(buf) == [buf EXCEPT !.stale = TRUE]

\* EffectBuffer::render(frame, blur): the current texture, no capture.
BufferRender(buf) == [buf EXCEPT !.renders = @ + 1]

\* Color32F::is_opaque of a workspace's background colour.
IsOpaque(color) == color = "opaque"

\* Rectangle::contains_rect
ContainsRect(outer, r) ==
    /\ outer.x <= r.x /\ r.x + r.w <= outer.x + outer.w
    /\ outer.y <= r.y /\ r.y + r.h <= outer.y + outer.h

\* Rectangle::new(params.pos_in_backdrop, params.geometry.size.upscale(params.zoom))
GeoInBackdrop(params) ==
    [x |-> params.pos_in_backdrop.x, y |-> params.pos_in_backdrop.y,
     w |-> (params.geometry.w * params.zoom) \div Frac,
     h |-> (params.geometry.h * params.zoom) \div Frac]

\* Mutant of WorkspaceCrop: an opaque workspace that only intersects the
\* element counts as covering it.
WorkspaceCropLoose(ws, geo) ==
    IF IsOpaque(ws.color) /\ Intersection(ws.rect, geo) # <<>>
    THEN [skip |-> TRUE, crop |-> <<geo>>]
    ELSE [skip |-> FALSE, crop |-> Intersection(ws.rect, geo)]

\* The crop of one workspace against the element, and whether the
\* workspace lets the backdrop be skipped.
WorkspaceCrop(ws, geo) ==
    IF IsOpaque(ws.color) /\ ContainsRect(ws.rect, geo)
    THEN [skip |-> TRUE, crop |-> <<geo>>]
    ELSE [skip |-> FALSE, crop |-> Intersection(ws.rect, geo)]

\* The XrayElement pushed for a workspace with a crop.
BackgroundElement(params, ws, crop, blur) ==
    [buffer |-> "background",
     bg_color |-> ws.color,
     crop |-> crop,
     src |-> [x |-> crop.x - ws.rect.x, y |-> crop.y - ws.rect.y, w |-> crop.w, h |-> crop.h],
     geometry |-> [x |-> ((crop.x - params.pos_in_backdrop.x) * Frac) \div params.zoom
                           + params.geometry.x,
                   y |-> ((crop.y - params.pos_in_backdrop.y) * Frac) \div params.zoom
                           + params.geometry.y,
                   w |-> (crop.w * Frac) \div params.zoom,
                   h |-> (crop.h * Frac) \div params.zoom],
     subregion |-> params.subregion,
     blur |-> blur]

\* The loop over self.workspaces from workspace i on: the elements pushed.
RECURSIVE BackgroundElements(_, _, _, _)
BackgroundElements(wss, params, blur, i) ==
    IF i > Len(wss) THEN <<>>
    ELSE LET c == WorkspaceCrop(wss[i], GeoInBackdrop(params))
         IN  (IF c.crop = <<>> THEN <<>>
              ELSE <<BackgroundElement(params, wss[i], c.crop[1], blur)>>)
             \o BackgroundElements(wss, params, blur, i + 1)

\* skip_backdrop after the loop.
SkipBackdrop(wss, params) ==
    \E i \in 1..Len(wss) : WorkspaceCrop(wss[i], GeoInBackdrop(params)).skip

\* Colour of the backdrop (Xray.backdrop_color).
BackdropColor == "backdrop"

\* The XrayElement pushed for the backdrop.
BackdropElement(params, blur) ==
    [buffer |-> "backdrop",
     bg_color |-> BackdropColor,
     crop |-> GeoInBackdrop(params),
     src |-> GeoInBackdrop(params),
     geometry |-> params.geometry,
     subregion |-> params.subregion,
     blur |-> blur]

\* Xray::render(ctx, params, blur, .., push).  bgAvail and bdAvail are what
\* prepare returns for the background and the backdrop buffer, bgDiffers and
\* bdDiffers whether the content they would capture differs from their
\* previous commit.  bgDamaged and bdDamaged are the "damaged" debug lines:
\* the commit read after an available prepare is not the one read before.
XrayRenderCall(params, blur, bgAvail, bdAvail, bgDiffers, bdDiffers) ==
    /\ xrCalls.render < MaxXrayRenders
    /\ LET fromBg == IF bgAvail THEN BackgroundElements(xrWorkspaces, params, blur, 1)
                     ELSE <<>>
           skip == bgAvail /\ SkipBackdrop(xrWorkspaces, params)
           fromBd == IF ~skip /\ bdAvail THEN <<BackdropElement(params, blur)>> ELSE <<>>
           background == BufferPrepare(xrBackground, bgDiffers)
           backdrop == IF skip THEN xrBackdrop ELSE BufferPrepare(xrBackdrop, bdDiffers)
       IN  /\ xrBackground' = background
           /\ xrBackdrop' = backdrop
           /\ xrElems' = xrElems \o fromBg \o fromBd
           /\ xrCall' = [op |-> "render", params |-> params, bgAvail |-> bgAvail,
                         bdAvail |-> bdAvail, pushed |-> fromBg \o fromBd,
                         bgDiffers |-> bgDiffers, bdDiffers |-> bdDiffers,
                         bgDamaged |-> (bgAvail /\ background.commit # xrBackground.commit),
                         bdDamaged |-> (~skip /\ bdAvail
                                        /\ backdrop.commit # xrBackdrop.commit)]
    /\ xrCalls' = [xrCalls EXCEPT !.render = @ + 1]
    /\ UNCHANGED xrWorkspaces

\* Xray::render called on its own: nothing outside the Xray changes.
XrayRender(params, blur, bgAvail, bdAvail, bgDiffers, bdDiffers) ==
    /\ XrayRenderCall(params, blur, bgAvail, bdAvail, bgDiffers, bdDiffers)
    /\ UNCHANGED otherThanXray

\* The crop of a draw in subregion coordinates: src against the element's
\* own src, scaled by geometry.size / src.size, moved to the geometry.
XrayCrop(elem, src) ==
    [x |-> ((src.x - elem.src.x) * elem.geometry.w) \div elem.src.w + elem.geometry.x,
     y |-> ((src.y - elem.src.y) * elem.geometry.h) \div elem.src.h + elem.geometry.y,
     w |-> (src.w * elem.geometry.w) \div elem.src.w,
     h |-> (src.h * elem.geometry.h) \div elem.src.h]

\* The damage XrayElement::draw goes on with: filtered through the
\* subregion when there is one, the given damage otherwise.
XrayDamage(elem, src, dst, damage) ==
    IF elem.subregion # <<>>
    THEN FilterFrom(RoundedRects(elem.subregion[1], XrayCrop(elem, src), dst), damage, 1)
    ELSE damage

\* The calls of frame.render_texture_from_to made by XrayElement::draw once
\* it has the texture: none when a subregion filters all damage away.
XrayDrawCalls(elem, src, dst, damage) ==
    IF elem.subregion # <<>> /\ XrayDamage(elem, src, dst, damage) = <<>> THEN <<>>
    ELSE <<[buffer |-> elem.buffer, src |-> src, dst |-> dst,
            damage |-> XrayDamage(elem, src, dst, damage)]>>

\* Mutant of DrawAccess: the draw prepares the buffer before it reads it.
DrawAccessPreparing(buf) == BufferRender(BufferPrepare(buf, TRUE))

\* What XrayElement::draw does to its buffer: buffer.render(frame, blur).
DrawAccess(buf) == BufferRender(buf)

\* XrayElement::draw(frame, src, dst, damage, _) of element k.  renderOk is
\* the result of buffer.render, drawOk that of render_texture_from_to.
XrayDraw(k, src, dst, damage, renderOk, drawOk) ==
    /\ xrCalls.draw < MaxXrayDraws
    /\ k \in 1..Len(xrElems)
    /\ LET elem == xrElems[k]
           calls == IF renderOk THEN XrayDrawCalls(elem, src, dst, damage) ELSE <<>>
       IN  /\ xrCall' = [op |-> "draw", ok |-> (calls = <<>> \/ drawOk), elem |-> elem,
                         src |-> src, dst |-> dst, damage |-> damage,
                         hadTexture |-> renderOk,
                         remaining |-> IF renderOk THEN XrayDamage(elem, src, dst, damage)
                                       ELSE <<>>,
                         drawCalls |-> calls]
           /\ xrBackground' = IF elem.buffer = "background" THEN DrawAccess(xrBackground)
                              ELSE xrBackground
           /\ xrBackdrop' = IF elem.buffer = "backdrop" THEN DrawAccess(xrBackdrop)
                            ELSE xrBackdrop
    /\ xrCalls' = [xrCalls EXCEPT !.draw = @ + 1]
    /\ UNCHANGED <<xrWorkspaces, xrElems>>
    /\ UNCHANGED otherThanXray

\* A workspace of the backdrop at column i (1/Frac units).
Workspace(i, color) ==
    [rect |-> [x |-> i * WsWidth * Frac, y |-> 0, w |-> WsWidth * Frac, h |-> WsHeight * Frac],
     color |-> color]

\* Xray.workspaces: none, one opaque or translucent workspace, two opaque
\* workspaces side by side.
WorkspaceLists ==
    {<<>>,
     <<Workspace(0, "opaque")>>,
     <<Workspace(0, "translucent")>>,
     <<Workspace(0, "opaque"), Workspace(1, "opaque")>>}

\* Subregions of an Xray element: none, one that covers the left pixel
\* column of the element, one that lies outside it.
XraySubregions ==
    {<<>>,
     <<[rects |-> <<[x |-> 0, y |-> 0, w |-> 1, h |-> WsHeight]>>,
        scale |-> [x |-> Frac, y |-> Frac], offset |-> [x |-> 0, y |-> 0]]>>,
     <<[rects |-> <<[x |-> 2 * WsWidth, y |-> 0, w |-> 1, h |-> 1]>>,
        scale |-> [x |-> Frac, y |-> Frac], offset |-> [x |-> 0, y |-> 0]]>>}

\* RenderParams: an element two pixels wide, as high as a workspace, placed
\* inside the first workspace, across the seam of the two, and past both,
\* at zoom 1/2 or 1.
XrayParams ==
    [geometry : {[x |-> 0, y |-> 0, w |-> 2 * Frac, h |-> WsHeight * Frac]},
     pos_in_backdrop : {[x |-> px, y |-> 0] :
                           px \in {0, (WsWidth - 1) * Frac, 2 * WsWidth * Frac}},
     zoom : {Frac \div 2, Frac},
     subregion : XraySubregions]

\* Destination and damage lists of an Xray draw (physical pixels).
XrayDst == [x |-> 0, y |-> 0, w |-> 2, h |-> WsHeight]
XrayDamageLists ==
    {<<>>, <<XrayDst>>, <<[x |-> 1, y |-> 0, w |-> 1, h |-> 1]>>}

InitXray ==
    /\ xrWorkspaces \in WorkspaceLists
    /\ xrBackground = NewEffectBuffer
    /\ xrBackdrop = NewEffectBuffer
    /\ xrElems = <<>>
    /\ xrCall = [op |-> "none"]
    /\ xrCalls = [render |-> 0, draw |-> 0]
    /\ InitRegionIdle
    /\ InitBlurIdle
    /\ InitFilterIdle
    /\ InitFbIdle
    /\ InitCacheIdle
    /\ InitEffectIdle

NextXray ==
    \/ \E params \in XrayParams, bgAvail \in BOOLEAN, bdAvail \in BOOLEAN :
           XrayRender(params, TRUE, bgAvail, bdAvail, TRUE, TRUE)
    \/ \E k \in 1..Len(xrElems), damage \in XrayDamageLists,
          renderOk \in BOOLEAN, drawOk \in BOOLEAN :
           XrayDraw(k, xrElems[k].src, XrayDst, damage, renderOk, drawOk)

SpecXray == InitXray /\ [][NextXray]_vars


-----------------------------------------------------------------------------
(* Properties of Xray::render                                              *)

\* A step that is a call of Xray::render.
XrayRenderStep == xrCalls'.render = xrCalls.render + 1

\* The element's projected area in backdrop space, from the call's params.
ProjectedArea ==
    LET p == xrCall'.params
    IN  [x |-> p.pos_in_backdrop.x, y |-> p.pos_in_backdrop.y,
         w |-> (p.geometry.w * p.zoom) \div Frac, h |-> (p.geometry.h * p.zoom) \div Frac]

\* Workspace i has an opaque colour.
OpaqueWs(i) == xrWorkspaces[i].color = "opaque"

\* The opaque workspace rectangles together cover the rectangle: every
\* cell of it (cells of 1/Frac) lies in one of them.
OpaqueCover(g) ==
    \A cx \in g.x..(g.x + g.w - 1), cy \in g.y..(g.y + g.h - 1) :
        \E i \in 1..Len(xrWorkspaces) :
            LET r == xrWorkspaces[i].rect
            IN  /\ OpaqueWs(i)
                /\ r.x <= cx /\ cx < r.x + r.w
                /\ r.y <= cy /\ cy < r.y + r.h

\* One opaque workspace rectangle alone holds the whole rectangle.
OneOpaqueHolds(g) ==
    \E i \in 1..Len(xrWorkspaces) :
        LET r == xrWorkspaces[i].rect
        IN  /\ OpaqueWs(i)
            /\ r.x <= g.x /\ g.x + g.w <= r.x + r.w
            /\ r.y <= g.y /\ g.y + g.h <= r.y + r.h

\* The elements of the last call pushed from one buffer.
PushedFrom(buffer) == SelectSeq(xrCall'.pushed, LAMBDA e : e.buffer = buffer)

\* The workspaces that share area with the rectangle.
WorkspacesHit(g) ==
    {i \in 1..Len(xrWorkspaces) :
        LET q == CommonPart(xrWorkspaces[i].rect, g) IN q.w > 0 /\ q.h > 0}

\* The background elements of the last call carry, workspace by
\* workspace, the colour of the rectangle and its part of the area.
BackgroundPerRectangle(g) ==
    LET bgs == PushedFrom("background")
    IN  /\ Len(bgs) = Cardinality(WorkspacesHit(g))
        /\ \A i \in WorkspacesHit(g) :
               \E k \in 1..Len(bgs) :
                   /\ bgs[k].bg_color = xrWorkspaces[i].color
                   /\ bgs[k].crop = CommonPart(xrWorkspaces[i].rect, g)

\* The backdrop buffer is left alone by the step and no element of it is
\* pushed.
BackdropSkipped ==
    /\ xrBackdrop' = xrBackdrop
    /\ PushedFrom("backdrop") = <<>>

\* The backdrop buffer is prepared, and one element of it is pushed last
\* when prepare reports a texture, none otherwise.
BackdropPrepared ==
    /\ xrBackdrop'.prepares = xrBackdrop.prepares + 1
    /\ Len(PushedFrom("backdrop")) = IF xrCall'.bdAvail THEN 1 ELSE 0
    /\ xrCall'.bdAvail =>
           xrCall'.pushed[Len(xrCall'.pushed)].buffer = "backdrop"

\* C19 as stated: whenever the opaque workspace rectangles cover the
\* element's projected area, Xray::render neither prepares nor emits the
\* backdrop and emits only background elements with each rectangle's colour
\* and crop; otherwise it prepares the backdrop and emits one backdrop
\* element when the buffer is available.
C19_SkipsWhenCovered ==
    [][XrayRenderStep =>
          IF OpaqueCover(ProjectedArea)
          THEN BackdropSkipped /\ BackgroundPerRectangle(ProjectedArea)
          ELSE BackdropPrepared]_vars

\* C19, amended: Xray::render skips the backdrop (neither prepared nor
\* emitted) exactly when the background buffer is available and one opaque
\* workspace rectangle alone holds the projected area; it then emits only
\* background elements, one per workspace rectangle that shares area with
\* the element, with that rectangle's colour and crop.  In every other case,
\* joint cover by several rectangles included, the backdrop is prepared and
\* one backdrop element is emitted last when the buffer is available.
C19_SkipsWhenOneRectangleHolds ==
    [][XrayRenderStep =>
          /\ xrCall'.bgAvail => BackgroundPerRectangle(ProjectedArea)
          /\ ~xrCall'.bgAvail => PushedFrom("background") = <<>>
          /\ IF xrCall'.bgAvail /\ OneOpaqueHolds(ProjectedArea)
             THEN BackdropSkipped
             ELSE BackdropPrepared]_vars

\* A render of an element inside one of two opaque workspaces: a
\* background element was pushed, the backdrop buffer was never prepared.
C19_Witness ==
    /\ xrCall.op = "render"
    /\ xrCall.bgAvail
    /\ Len(xrWorkspaces) = 2
    /\ xrCalls.render = 1
    /\ xrBackdrop.prepares = 0
    /\ Len(xrCall.pushed) = 1
    /\ xrCall.pushed[1].buffer = "background"
    /\ xrCall.pushed[1].crop.w > 0


-----------------------------------------------------------------------------
(* Writers and readers of an EffectBuffer within the frame                 *)

\* A step that is a call of XrayElement::draw.
XrayDrawStep == xrCalls'.draw = xrCalls.draw + 1

\* The buffer of a name.
BufferOf(name) == IF name = "background" THEN xrBackground ELSE xrBackdrop

\* Elements pushed in the frame that sample the buffer.
Sampling(name) == {k \in 1..Len(xrElems) : xrElems[k].buffer = name}

\* C20 as stated: within one frame prepare is called exactly once on each
\* buffer that elements sample, however many elements sample it.
C20_OnePreparePerFrame ==
    \A name \in {"background", "backdrop"} :
        Sampling(name) # {} => BufferOf(name).prepares = 1

\* C20, amended: prepare is called on the background buffer once in every
\* call of Xray::render, so once per element with the effect and not once
\* per frame, and on the backdrop buffer at most once in a call; of these
\* calls only one on a stale buffer captures, so each buffer is captured at
\* most once in the frame.  XrayElement::draw never prepares: it reads its
\* own buffer once through render, which does not capture.
C20_OnePreparePerRender ==
    [][/\ XrayRenderStep =>
              /\ xrBackground'.prepares = xrBackground.prepares + 1
              /\ xrBackdrop'.prepares \in {xrBackdrop.prepares, xrBackdrop.prepares + 1}
              /\ xrBackground'.renders = xrBackground.renders
              /\ xrBackdrop'.renders = xrBackdrop.renders
              /\ xrBackground'.captures <= 1
              /\ xrBackdrop'.captures <= 1
       /\ XrayDrawStep =>
              /\ xrBackground'.prepares = xrBackground.prepares
              /\ xrBackdrop'.prepares = xrBackdrop.prepares
              /\ xrBackground'.captures = xrBackground.captures
              /\ xrBackdrop'.captures = xrBackdrop.captures
              /\ xrBackground'.renders + xrBackdrop'.renders
                     = xrBackground.renders + xrBackdrop.renders + 1
              /\ BufferOf(xrCall'.elem.buffer).prepares >= 1]_vars

\* Two elements rendered in the frame, both sampling the background buffer,
\* which was prepared twice and captured once, and then read by a draw.
C20_Witness ==
    /\ xrCalls.render = 2
    /\ Cardinality(Sampling("background")) >= 2
    /\ xrBackground.prepares = 2
    /\ xrBackground.captures = 1
    /\ xrCall.op = "draw"
    /\ xrBackground.renders = 1


-----------------------------------------------------------------------------
(* Both kinds of element drawn in one frame: a framebuffer effect and Xray *)
(* elements, each with a few of the inputs of its own specification.       *)

InitDraw ==
    /\ InitFbIdle
    /\ xrWorkspaces \in {<<Workspace(0, "opaque")>>, <<Workspace(0, "translucent")>>}
    /\ xrBackground = NewEffectBuffer
    /\ xrBackdrop = NewEffectBuffer
    /\ xrElems = <<>>
    /\ xrCall = [op |-> "none"]
    /\ xrCalls = [render |-> 0, draw |-> 0]
    /\ InitRegionIdle
    /\ InitBlurIdle
    /\ InitFilterIdle
    /\ InitCacheIdle
    /\ InitEffectIdle

\* The framebuffer effect's destinations here: inside the output and wholly
\* outside it.
DrawDsts ==
    {[x |-> 1, y |-> 1, w |-> DstSide, h |-> DstSide],
     [x |-> 0 - DstSide, y |-> 0, w |-> DstSide, h |-> DstSide]}

\* The source of the whole element.
DrawSrc == [x |-> 0, y |-> 0, w |-> DstSide * Frac, h |-> DstSide * Frac]

\* The Xray elements here: inside the first workspace at zoom 1.
DrawParams ==
    {p \in XrayParams : p.pos_in_backdrop.x = 0 /\ p.zoom = Frac}

NextDraw ==
    \/ \E sub \in FbSubregions :
           FbRender([x |-> 0, y |-> 0], sub, Frac, <<>>, TRUE, TRUE)
    \/ \E dst \in DrawDsts : CaptureFramebuffer(DrawSrc, dst, 0, TRUE, TRUE)
    \/ \E dst \in DrawDsts, damage \in FbDamageLists, drawOk \in BOOLEAN :
           FbDraw(DrawSrc, dst, damage, drawOk)
    \/ \E params \in DrawParams : XrayRender(params, TRUE, TRUE, TRUE, TRUE, TRUE)
    \/ \E k \in 1..Len(xrElems), damage \in XrayDamageLists,
          renderOk \in BOOLEAN, drawOk \in BOOLEAN :
           XrayDraw(k, xrElems[k].src, XrayDst, damage, renderOk, drawOk)

SpecDraw == InitDraw /\ [][NextDraw]_vars

\* The last Xray call was a draw.
XrayDrawReturned == xrCall.op = "draw"

\* C14 as stated: whenever the damage that remains for a draw is empty,
\* FramebufferEffectElement::draw and XrayElement::draw return success
\* without a draw call, with or without a subregion.
C14_EmptyDamageNoDrawCall ==
    /\ (DrawReturned /\ fbCall.remaining = <<>>) =>
           fbCall.ok /\ fbCall.drawCalls = <<>>
    /\ (XrayDrawReturned /\ xrCall.remaining = <<>>) =>
           xrCall.ok /\ xrCall.drawCalls = <<>>

\* C14, amended: FramebufferEffectElement::draw returns success without a
\* draw call whenever the damage left after subregion filtering and
\* clamping is empty, with or without a subregion.  XrayElement::draw does
\* so when it has a subregion and the filtered damage is empty, and when
\* the buffer yields no texture; without a subregion it hands the damage
\* it was given to render_texture_from_to, empty or not, and returns that
\* call's result.
C14_EmptyDamageNoDrawCallFiltered ==
    /\ (DrawReturned /\ fbCall.remaining = <<>>) =>
           fbCall.ok /\ fbCall.drawCalls = <<>>
    /\ (XrayDrawReturned /\ ~xrCall.hadTexture) =>
           xrCall.ok /\ xrCall.drawCalls = <<>>
    /\ (XrayDrawReturned /\ xrCall.hadTexture /\ xrCall.elem.subregion # <<>>
            /\ xrCall.remaining = <<>>) =>
           xrCall.ok /\ xrCall.drawCalls = <<>>
    /\ (XrayDrawReturned /\ xrCall.hadTexture /\ xrCall.elem.subregion = <<>>) =>
           /\ Len(xrCall.drawCalls) = 1
           /\ xrCall.drawCalls[1].damage = xrCall.damage

\* A framebuffer effect draw with a texture and damage whose damage was all
\* filtered or clamped away, and an Xray draw with a texture whose subregion
\* filtered all of its damage away: neither issued a draw call.
C14_Witness ==
    /\ DrawReturned
    /\ fbCall.hadTexture
    /\ fbCall.clamped # <<>>
    /\ fbCall.damage # <<>>
    /\ fbCall.remaining = <<>>
    /\ fbCall.drawCalls = <<>>
    /\ XrayDrawReturned
    /\ xrCall.hadTexture
    /\ xrCall.elem.subregion # <<>>
    /\ xrCall.damage # <<>>
    /\ xrCall.remaining = <<>>
    /\ xrCall.drawCalls = <<>>


-----------------------------------------------------------------------------
(* The cached blur region of a surface, src/handlers/background_effect.rs  *)
(*                                                                         *)
(* One surface.  Its double-buffered protocol state is smithay's: a state  *)
(* of a protocol exists in the surface's cache once the client has used    *)
(* that protocol on the surface, a request writes the pending state, and   *)
(* a commit makes the pending state current and then runs the post-commit  *)
(* hooks.  An Option is a sequence of length 0 or 1.                       *)

\* Lists that consumers hold at a time.
MaxHeldLists == 2

\* The rectangle that stands for KdeBlurRegion::WholeSurface.
I32Max == 2147483647
InfiniteRect ==
    [x |-> 0 - (I32Max \div 2), y |-> 0 - (I32Max \div 2), w |-> I32Max, h |-> I32Max]

\* What a branch of recompute_blur_region leaves in inner.rects for an
\* Option<RegionAttributes>: the decomposition written into the cached
\* Vec, or None.
RectsOfRegion(reg, vec) ==
    IF reg = <<>> THEN <<>>
    ELSE <<region_to_non_overlapping_rects(reg[1], vec)>>

\* The same for an Option<KdeBlurRegion>.
RectsOfKdeRegion(reg, vec) ==
    IF reg = <<>> THEN <<>>
    ELSE IF reg[1].kind = "WholeSurface" THEN <<<<InfiniteRect>>>>
    ELSE <<region_to_non_overlapping_rects(reg[1].rects, vec)>>

\* Mutant of recompute_blur_region: an ext-background-effect state that
\* holds no region falls through to the KDE state.
recompute_blur_region_falls_through(ext, kde, rects) ==
    LET vec == IF rects = <<>> THEN <<>> ELSE rects[1]
    IN  IF ext # <<>> /\ ext[1].current # <<>> THEN RectsOfRegion(ext[1].current, vec)
        ELSE IF kde # <<>> THEN RectsOfKdeRegion(kde[1].current, vec)
        ELSE <<>>

\* recompute_blur_region(states, inner): the new inner.rects.  The
\* ext-background-effect state is preferred whenever the surface has one.
recompute_blur_region(ext, kde, rects) ==
    LET vec == IF rects = <<>> THEN <<>> ELSE rects[1]
    IN  IF ext # <<>> THEN RectsOfRegion(ext[1].current, vec)
        ELSE IF kde # <<>> THEN RectsOfKdeRegion(kde[1].current, vec)
        ELSE <<>>

\* Mutant of ReadInner: the flag is cleared, the list is not recomputed.
ReadInnerNoRecompute(inner, ext, kde) == [inner EXCEPT !.dirty = FALSE]

\* What get_cached_blur_region does to the inner state.
ReadInner(inner, ext, kde) ==
    IF inner.dirty
    THEN [inner EXCEPT !.dirty = FALSE,
                       !.rects = recompute_blur_region(ext, kde, inner.rects)]
    ELSE inner

\* The id given to a new Arc: the least one that no live Arc has.
FreshId(arc, holders) ==
    CHOOSE i \in 1..(MaxHeldLists + 2) :
        /\ i \notin holders \cup {arc}
        /\ \A j \in 1..(i - 1) : j \in holders \cup {arc}

\* Mutant of MakeMut: an Arc that consumers hold is written in place.
MakeMutInPlace(arc, holders) == IF arc = 0 THEN FreshId(arc, holders) ELSE arc

\* The Arc recompute_blur_region writes to: a new one when inner.rects is
\* None, Arc::make_mut otherwise, which clones when the Arc is shared.
MakeMut(arc, holders) ==
    IF arc = 0 \/ arc \in holders THEN FreshId(arc, holders) ELSE arc

\* The Arc of inner.rects and the Vecs of the live Arcs after a
\* recomputation that left newRects in inner.rects.
ArcsAfterRecompute(arc, heap, holders, newRects) ==
    LET target == MakeMut(arc, holders)
    IN  IF newRects = <<>>
        THEN [arc |-> 0, heap |-> [i \in holders |-> heap[i]]]
        ELSE [arc |-> target,
              heap |-> [i \in holders \cup {target} |->
                           IF i = target THEN newRects[1] ELSE heap[i]]]

\* get_cached_blur_region(states): returns a clone of the Arc in the
\* inner state; keep tells whether the caller goes on holding it.
GetCachedBlurRegion(keep) ==
    /\ cbInner' = ReadInner(cbInner, cbExt, cbKde)
    /\ LET arcs == IF cbInner.dirty
                   THEN ArcsAfterRecompute(cbArc, cbHeap, cbHeld, cbInner'.rects)
                   ELSE [arc |-> cbArc, heap |-> cbHeap]
       IN  /\ cbArc' = arcs.arc
           /\ cbHeap' = arcs.heap
           /\ cbHeld' = IF keep /\ arcs.arc # 0 THEN cbHeld \cup {arcs.arc} ELSE cbHeld
           /\ Cardinality(cbHeld') <= MaxHeldLists
    /\ cbCall' = [op |-> "get_cached_blur_region", wasDirty |-> cbInner.dirty,
                  returned |-> cbInner'.rects]
    /\ cbHist' = [cbHist EXCEPT !.read = <<cbInner'.rects>>, !.fresh = FALSE]
    /\ UNCHANGED <<cbExt, cbKde, cbHooks, cbPc>>
    /\ UNCHANGED otherThanCache

\* A consumer drops the list it holds (an EffectSubregion goes away).
DropList(id) ==
    /\ id \in cbHeld
    /\ cbHeld' = cbHeld \ {id}
    /\ cbHeap' = [i \in (cbHeld' \cup {cbArc}) \ {0} |-> cbHeap[i]]
    /\ cbCall' = [op |-> "drop", id |-> id]
    /\ UNCHANGED <<cbInner, cbExt, cbKde, cbHist, cbHooks, cbPc, cbArc>>
    /\ UNCHANGED otherThanCache

\* Mutant of MarkPendingDirty: the request marks the cache dirty at once.
MarkDirtyNow(inner) ==
    [inner EXCEPT !.dirty = TRUE, !.hook_registered = TRUE]

\* mark_blur_region_pending_dirty(wl_surface): the inner state after it;
\* the post-commit hook is registered at the first call.
MarkPendingDirty(inner) ==
    [inner EXCEPT !.pending_dirty = TRUE, !.hook_registered = TRUE]

\* Mutant of HooksAfterRequest: every request registers a hook.
HooksAfterEveryRequest(inner, hooks) == hooks + 1

\* The hooks of the surface after mark_blur_region_pending_dirty: one is
\* added when register_hook is true.
HooksAfterRequest(inner, hooks) ==
    IF inner.hook_registered THEN hooks ELSE hooks + 1

\* Mutant of PostCommitHook: pending is cleared, dirty is not set.
PostCommitHookDropsChange(inner) == [inner EXCEPT !.pending_dirty = FALSE]

\* The post-commit hook registered by mark_blur_region_pending_dirty.
PostCommitHook(inner) ==
    IF inner.pending_dirty
    THEN [inner EXCEPT !.pending_dirty = FALSE, !.dirty = TRUE]
    ELSE inner

\* The registered post-commit hooks run one after another.
RECURSIVE RunHooks(_, _)
RunHooks(inner, hooks) ==
    IF hooks = 0 THEN inner ELSE RunHooks(PostCommitHook(inner), hooks - 1)

\* The client creates its ext-background-effect object for the surface:
\* from now on cached.has::<BackgroundEffectSurfaceCachedState>() holds.
ExtBind ==
    /\ cbPc = "idle"
    /\ cbExt = <<>>
    /\ cbExt' = <<[pending |-> <<>>, current |-> <<>>]>>
    /\ cbCall' = [op |-> "ext_bind"]
    /\ UNCHANGED <<cbInner, cbKde, cbHist, cbHooks, cbPc, arcVars>>
    /\ UNCHANGED otherThanCache

\* ExtBackgroundEffectHandler::set_blur_region and unset_blur_region:
\* region is <<r>> for a set, <<>> for an unset.
ExtSetBlurRegion(reg) ==
    /\ cbPc = "idle"
    /\ cbExt # <<>>
    /\ cbExt' = <<[cbExt[1] EXCEPT !.pending = reg]>>
    /\ cbInner' = MarkPendingDirty(cbInner)
    /\ cbHooks' = HooksAfterRequest(cbInner, cbHooks)
    /\ cbCall' = [op |-> "ext_set_blur_region", reg |-> reg]
    /\ cbHist' = [cbHist EXCEPT !.requested = TRUE]
    /\ UNCHANGED <<cbKde, cbPc, arcVars>>
    /\ UNCHANGED otherThanCache

\* The client creates its KDE blur object for the surface.
KdeBind ==
    /\ cbPc = "idle"
    /\ cbKde = <<>>
    /\ cbKde' = <<[pending |-> <<>>, current |-> <<>>]>>
    /\ cbCall' = [op |-> "kde_bind"]
    /\ UNCHANGED <<cbInner, cbExt, cbHist, cbHooks, cbPc, arcVars>>
    /\ UNCHANGED otherThanCache

\* KdeBlurHandler::set_blur_region and unset_blur_region.
KdeSetBlurRegion(reg) ==
    /\ cbPc = "idle"
    /\ cbKde # <<>>
    /\ cbKde' = <<[cbKde[1] EXCEPT !.pending = reg]>>
    /\ cbInner' = MarkPendingDirty(cbInner)
    /\ cbHooks' = HooksAfterRequest(cbInner, cbHooks)
    /\ cbCall' = [op |-> "kde_set_blur_region", reg |-> reg]
    /\ cbHist' = [cbHist EXCEPT !.requested = TRUE]
    /\ UNCHANGED <<cbExt, cbPc, arcVars>>
    /\ UNCHANGED otherThanCache

\* The pending state made current.
Applied(state) ==
    IF state = <<>> THEN <<>> ELSE <<[state[1] EXCEPT !.current = state[1].pending]>>

\* wl_surface.commit: the pending states become current, then the
\* post-commit hook runs.
Commit ==
    /\ cbPc = "idle"
    /\ cbExt' = Applied(cbExt)
    /\ cbKde' = Applied(cbKde)
    /\ cbInner' = RunHooks(cbInner, cbHooks)
    /\ cbCall' = [op |-> "commit", carried |-> cbInner.pending_dirty]
    /\ cbHist' = [read |-> <<>>, fresh |-> cbHist.fresh \/ cbHist.requested,
                  requested |-> FALSE]
    /\ UNCHANGED <<cbHooks, cbPc, arcVars>>
    /\ UNCHANGED otherThanCache

\* Regions a client sets: no rectangle, one rectangle, two overlapping
\* rectangles, a rectangle added and subtracted again.
CacheRegions ==
    {<<>>,
     <<Rect("Add", 0, 0, 2, 1)>>,
     <<Rect("Add", 0, 0, 2, 2), Rect("Add", 1, 1, 3, 3)>>,
     <<Rect("Add", 0, 0, 1, 1), Rect("Subtract", 0, 0, 1, 1)>>}

\* KDE blur regions: the whole surface, or a region.
KdeRegions ==
    {[kind |-> "WholeSurface", rects |-> <<>>]}
        \cup {[kind |-> "Region", rects |-> r] : r \in CacheRegions}

InitCache ==
    /\ InitCacheIdle
    /\ InitEffectIdle
    /\ InitRegionIdle
    /\ InitBlurIdle
    /\ InitFilterIdle
    /\ InitFbIdle
    /\ InitXrayIdle

NextCache ==
    \/ ExtBind
    \/ \E reg \in {<<>>} \cup {<<r>> : r \in CacheRegions} : ExtSetBlurRegion(reg)
    \/ KdeBind
    \/ \E reg \in {<<>>} \cup {<<r>> : r \in KdeRegions} : KdeSetBlurRegion(reg)
    \/ Commit
    \/ GetCachedBlurRegion(FALSE)

SpecCache == InitCache /\ [][NextCache]_vars


-----------------------------------------------------------------------------
(* Properties of the cached blur region                                    *)

\* A step that is a call of get_cached_blur_region.
ReadStep == cbCall'.op = "get_cached_blur_region"

\* The committed blur region the surface's state yields: that of its
\* ext-background-effect state when it has one, else that of its KDE blur
\* state, <<>> when there is none.
CommittedRegion ==
    IF cbExt # <<>>
    THEN (IF cbExt[1].current = <<>> THEN <<>>
          ELSE <<[kind |-> "Region", rects |-> cbExt[1].current[1]]>>)
    ELSE IF cbKde # <<>> THEN cbKde[1].current
    ELSE <<>>

\* The list of a committed region, decomposed from scratch.
CommittedRects ==
    IF CommittedRegion = <<>> THEN <<>>
    ELSE IF CommittedRegion[1].kind = "WholeSurface" THEN <<<<InfiniteRect>>>>
    ELSE <<region_to_non_overlapping_rects(CommittedRegion[1].rects, <<>>)>>

\* C17: get_cached_blur_region recomputes the list from the committed state
\* exactly when the dirty flag is set, and clears the flag; with the flag
\* clear it returns the cached value and changes nothing.  A read that
\* follows a read with no commit in between returns the same value, and the
\* first read after a commit that carried a region change returns the
\* decomposition of the region then committed.
C17_RecomputesExactlyWhenDirty ==
    [][ReadStep =>
          /\ cbInner.dirty =>
                 /\ cbInner'.rects = CommittedRects
                 /\ ~cbInner'.dirty
          /\ ~cbInner.dirty => cbInner' = cbInner
          /\ cbCall'.returned = cbInner'.rects
          /\ cbHist.read # <<>> => cbCall'.returned = cbHist.read[1]
          /\ cbHist.fresh => cbCall'.returned = CommittedRects]_vars

\* A read that found the flag set after a commit and returned the two or
\* more rectangles of the newly committed region, while an unset of the
\* region is pending and not yet committed.
C17_Witness ==
    /\ cbCall.op = "get_cached_blur_region"
    /\ cbCall.wasDirty
    /\ ~cbInner.dirty
    /\ cbCall.returned # <<>>
    /\ Len(cbCall.returned[1]) >= 2
    /\ cbExt # <<>>
    /\ cbExt[1].current # <<>>
    /\ Len(cbExt[1].current[1]) = 2
    /\ cbExt[1].pending = <<>>
    /\ cbInner.pending_dirty

\* Some protocol state of the surface holds a committed blur region.
RegionConfigured ==
    \/ cbExt # <<>> /\ cbExt[1].current # <<>>
    \/ cbKde # <<>> /\ cbKde[1].current # <<>>

\* The last call was a read.
ReadReturned == cbCall.op = "get_cached_blur_region"

\* C18: get_cached_blur_region returns None exactly when no blur region
\* is configured in the surface's committed state, and a list otherwise.
C18_NoneIffNotConfigured ==
    ReadReturned => (cbCall.returned = <<>> <=> ~RegionConfigured)


-----------------------------------------------------------------------------
(* Requests, commits and the pending flag                                  *)

\* A step that is a set or unset request of either protocol.
RequestStep == cbCall'.op \in {"ext_set_blur_region", "kde_set_blur_region"}

\* A step that is a commit of the surface.
CommitStep == cbCall'.op = "commit"

\* C27: a set or unset request only marks the change as pending: it leaves
\* the dirty flag and the cached list alone, so a read after it returns what
\* a read before it would have returned, and with the flag clear that is
\* the cached value.  The post-commit hook moves pending to dirty and
\* clears pending; a commit with nothing pending leaves the dirty flag and
\* the cached list untouched.
C27_RequestOnlyMarksPending ==
    [][/\ RequestStep =>
              /\ cbInner'.pending_dirty
              /\ cbInner'.dirty = cbInner.dirty
              /\ cbInner'.rects = cbInner.rects
              /\ ReadInner(cbInner', cbExt', cbKde').rects
                     = ReadInner(cbInner, cbExt, cbKde).rects
              /\ ~cbInner.dirty => ReadInner(cbInner', cbExt', cbKde') = cbInner'
       /\ CommitStep =>
              /\ cbInner'.rects = cbInner.rects
              /\ ~cbInner'.pending_dirty
              /\ cbInner.pending_dirty => cbInner'.dirty
              /\ ~cbInner.pending_dirty => cbInner'.dirty = cbInner.dirty]_vars

\* A read made after a set request and before its commit: the flag was
\* clear, the change is still pending, and the read returned the list of
\* the region committed before, not of the one requested.
C27_Witness ==
    /\ ReadReturned
    /\ ~cbCall.wasDirty
    /\ cbInner.pending_dirty
    /\ cbExt # <<>>
    /\ cbExt[1].current # <<>>
    /\ cbExt[1].pending # <<>>
    /\ cbExt[1].pending # cbExt[1].current
    /\ cbCall.returned = <<region_to_non_overlapping_rects(cbExt[1].current[1], <<>>)>>
    /\ cbCall.returned # <<region_to_non_overlapping_rects(cbExt[1].pending[1], <<>>)>>


\* C30: the post-commit hook of a surface is registered at most once, by
\* the first set or unset request of either protocol; later requests add
\* none, nothing but a request registers one, and hook_registered, once
\* true, stays true.
C30_HookRegisteredOnce ==
    [][/\ cbInner.hook_registered => cbInner'.hook_registered
       /\ cbHooks' <= 1
       /\ RequestStep => (cbInner'.hook_registered /\ cbHooks' = 1)
       /\ ~RequestStep => cbHooks' = cbHooks]_vars

\* A KDE request made after an ext-background-effect request on the same
\* surface: both protocols hold a pending region, one hook is registered.
C30_Witness ==
    /\ cbCall.op = "kde_set_blur_region"
    /\ cbExt # <<>>
    /\ cbExt[1].pending # <<>>
    /\ cbKde # <<>>
    /\ cbKde[1].pending # <<>>
    /\ cbInner.hook_registered
    /\ cbHooks = 1


-----------------------------------------------------------------------------
(* The cache shared by two execution contexts                              *)
(*                                                                         *)
(* The protocol dispatch handles the requests of the surface one after     *)
(* another, and within a request it goes step by step: a set or unset      *)
(* request writes the pending state, takes the lock to mark it, then       *)
(* registers the hook; a commit applies the pending state, then its hook   *)
(* takes the lock.  The renderer reads between any two of these steps and  *)
(* may go on holding the list it got.  Every step below that touches       *)
(* cbInner is one hold of the lock.                                        *)

\* A request arrives: smithay writes the pending state of the protocol.
WritePending(proto, reg) ==
    /\ cbPc = "idle"
    /\ IF proto = "ext"
       THEN /\ cbExt # <<>>
            /\ cbExt' = <<[cbExt[1] EXCEPT !.pending = reg]>>
            /\ UNCHANGED cbKde
       ELSE /\ cbKde # <<>>
            /\ cbKde' = <<[cbKde[1] EXCEPT !.pending = reg]>>
            /\ UNCHANGED cbExt
    /\ cbPc' = "mark"
    /\ cbCall' = [op |-> "write_pending", proto |-> proto, reg |-> reg]
    /\ cbHist' = [cbHist EXCEPT !.requested = TRUE]
    /\ UNCHANGED <<cbInner, cbHooks, arcVars>>
    /\ UNCHANGED otherThanCache

\* The lock hold of mark_blur_region_pending_dirty.
MarkSection ==
    /\ cbPc = "mark"
    /\ cbInner' = MarkPendingDirty(cbInner)
    /\ cbPc' = IF cbInner.hook_registered THEN "idle" ELSE "register"
    /\ cbCall' = [op |-> "mark"]
    /\ UNCHANGED <<cbExt, cbKde, cbHist, cbHooks, arcVars>>
    /\ UNCHANGED otherThanCache

\* add_post_commit_hook, called after the lock is released.
RegisterHook ==
    /\ cbPc = "register"
    /\ cbHooks' = cbHooks + 1
    /\ cbPc' = "idle"
    /\ cbCall' = [op |-> "register_hook"]
    /\ UNCHANGED <<cbInner, cbExt, cbKde, cbHist, arcVars>>
    /\ UNCHANGED otherThanCache

\* wl_surface.commit, first half: the pending states become current.
ApplyPending ==
    /\ cbPc = "idle"
    /\ cbExt' = Applied(cbExt)
    /\ cbKde' = Applied(cbKde)
    /\ cbPc' = "hook"
    /\ cbCall' = [op |-> "apply_pending"]
    /\ cbHist' = [cbHist EXCEPT !.read = <<>>]
    /\ UNCHANGED <<cbInner, cbHooks, arcVars>>
    /\ UNCHANGED otherThanCache

\* wl_surface.commit, second half: the lock hold of the post-commit hook.
HookSection ==
    /\ cbPc = "hook"
    /\ cbInner' = RunHooks(cbInner, cbHooks)
    /\ cbPc' = "idle"
    /\ cbCall' = [op |-> "hook", carried |-> cbHist.requested]
    /\ cbHist' = [cbHist EXCEPT !.fresh = cbHist.fresh \/ cbHist.requested,
                                !.requested = FALSE]
    /\ UNCHANGED <<cbExt, cbKde, cbHooks, arcVars>>
    /\ UNCHANGED otherThanCache

\* Requests of the shared cache: an unset, one rectangle, two rectangles
\* on the ext-background-effect side; an unset and the whole surface on the
\* KDE side.
SharedExtRequests ==
    {<<>>, <<<<Rect("Add", 0, 0, 2, 1)>>>>,
     <<<<Rect("Add", 0, 0, 2, 2), Rect("Add", 1, 1, 3, 3)>>>>}
SharedKdeRequests == {<<>>, <<[kind |-> "WholeSurface", rects |-> <<>>]>>}

NextShared ==
    \/ ExtBind
    \/ KdeBind
    \/ \E reg \in SharedExtRequests : WritePending("ext", reg)
    \/ \E reg \in SharedKdeRequests : WritePending("kde", reg)
    \/ MarkSection
    \/ RegisterHook
    \/ ApplyPending
    \/ HookSection
    \/ \E keep \in BOOLEAN : GetCachedBlurRegion(keep)
    \/ \E id \in cbHeld : DropList(id)

SpecShared == InitCache /\ [][NextShared]_vars

\* C28: with the renderer's reads falling anywhere between the steps of
\* the protocol dispatch, once a hook has set dirty the flag stays set
\* until a read, dirty is cleared only by a read, which recomputes the list
\* from the committed state in the same lock hold, and a read that follows
\* a finished hook of a commit that carried a region change returns the
\* list of the state committed then or later, never an older one.
C28_NoCommittedChangeLost ==
    [][/\ (cbInner.dirty /\ ~ReadStep) => cbInner'.dirty
       /\ (cbInner.dirty /\ ~cbInner'.dirty) =>
              /\ ReadStep
              /\ cbInner'.rects = CommittedRects
              /\ cbCall'.returned = CommittedRects
       /\ (ReadStep /\ cbHist.fresh) => cbCall'.returned = CommittedRects
       /\ (cbCall'.op = "hook" /\ cbHist.requested) => cbInner'.dirty]_vars

\* A read that recomputed the committed list of rectangles while the
\* dispatch stood between writing a new pending region and marking it.
C28_Witness ==
    /\ ReadReturned
    /\ cbCall.wasDirty
    /\ cbPc = "mark"
    /\ cbCall.returned # <<>>
    /\ cbCall.returned = CommittedRects
    /\ cbExt # <<>>
    /\ cbExt[1].pending # cbExt[1].current

\* C29: a list a consumer holds is a snapshot: no step changes the Vec of
\* an Arc that a consumer holds.  A recomputation that finds the cached Arc
\* held by a consumer writes to another Arc; one that finds it held by no
\* consumer writes to the same Arc in place.
C29_HeldListNeverChanges ==
    [][/\ \A id \in cbHeld \cap cbHeld' :
              /\ id \in DOMAIN cbHeap /\ id \in DOMAIN cbHeap'
              /\ cbHeap'[id] = cbHeap[id]
       /\ cbArc' # 0 => cbInner'.rects = <<cbHeap'[cbArc']>>
       /\ cbArc' = 0 => cbInner'.rects = <<>>
       /\ (ReadStep /\ cbInner.dirty /\ cbArc # 0 /\ cbArc' # 0) =>
              (cbArc' = cbArc <=> cbArc \notin cbHeld)]_vars

\* After a recomputation a consumer still holds the list it got before,
\* and it differs from the list now cached.
C29_Witness ==
    /\ ReadReturned
    /\ cbCall.wasDirty
    /\ cbArc # 0
    /\ \E id \in cbHeld :
           /\ id # cbArc
           /\ cbHeap[id] # cbHeap[cbArc]
           /\ Len(cbHeap[id]) >= 1


-----------------------------------------------------------------------------
(* Edge alignment of the decomposition                                     *)

\* The top and bottom edges, and the left and right edges, of the input
\* rectangles.
InputYs == {region[i].y : i \in 1..Len(region)}
               \cup {region[i].y + region[i].h : i \in 1..Len(region)}
InputXs == {region[i].x : i \in 1..Len(region)}
               \cup {region[i].x + region[i].w : i \in 1..Len(region)}

\* lo and hi follow each other among the distinct input top/bottom edges.
ConsecutiveYs(lo, hi) ==
    /\ lo \in InputYs
    /\ hi \in InputYs
    /\ lo < hi
    /\ \A y \in InputYs : ~(lo < y /\ y < hi)

\* C26: every coordinate of every output rectangle is an input edge
\* coordinate: its top and bottom are consecutive elements of the sorted
\* distinct top/bottom edges of the input, its left and right are left or
\* right edges of input rectangles.  So two output rectangles whose y
\* ranges meet do so at one and the same input edge.
C26_OutputEdgesAreInputEdges ==
    Done =>
        \A k \in 1..Len(output) :
            LET r == output[k]
            IN  /\ ConsecutiveYs(r.y, r.y + r.h)
                /\ r.x \in InputXs
                /\ r.x + r.w \in InputXs
                /\ \A j \in 1..Len(output) :
                       (output[j].y > r.y /\ output[j].y < r.y + r.h + 1) =>
                           output[j].y = r.y + r.h

\* Two bands: an upper rectangle and, below it from the same y on, a
\* rectangle whose left edge is the right edge of a subtracted rectangle.
C26_Witness ==
    /\ Done
    /\ \E i, j \in 1..Len(output) :
           /\ output[i].y + output[i].h = output[j].y
           /\ output[i].x # output[j].x
           /\ \E s \in 1..Len(region) :
                  /\ region[s].kind = "Subtract"
                  /\ region[s].x + region[s].w = output[j].x


\* ------------------------------------------------------------------------
\* The order of the draws of Blur::render
\* ------------------------------------------------------------------------

\* Entry k of the pyramid, counted from 0 as the source does.
Entry(k) == textures[k + 1].id

\* C25: a successful Blur::render with p = clamp(passes, 1, 31) performs
\* exactly p downsample draws followed by p upsample draws.  Downsample step
\* k (k = 1..p) reads the source when k = 1 and entry k - 1 otherwise, and
\* writes entry k.  The upsample steps run in reverse: the j-th of them is
\* step k = p - j + 1, reading entry k and writing entry k - 1.  The source
\* is never written, the last write goes to entry 0, and the handle returned
\* is entry 0.
C25_DownThenUp ==
    (blurCall.op = "render" /\ blurCall.ok) =>
        LET p == ClampPasses(blurCall.passes)
            d == blurCall.draws
        IN  /\ Len(d) = 2 * p
            /\ \A k \in 1..p :
                   /\ d[k].src = (IF k = 1 THEN 0 ELSE Entry(k - 1))
                   /\ d[k].dst = Entry(k)
            /\ \A j \in 1..p :
                   LET k == p - j + 1
                   IN  /\ d[p + j].src = Entry(k)
                       /\ d[p + j].dst = Entry(k - 1)
            /\ \A i \in 1..Len(d) : d[i].dst # 0
            /\ d[Len(d)].dst = Entry(0)
            /\ blurCall.returned = Entry(0)

\* A successful render with at least two passes, so that a downsample step
\* reads a pyramid entry and not the source.
C25_Witness ==
    /\ blurCall.op = "render"
    /\ blurCall.ok
    /\ ClampPasses(blurCall.passes) >= 2
    /\ Len(blurCall.draws) = 2 * ClampPasses(blurCall.passes)


\* ------------------------------------------------------------------------
\* The GL state around Blur::render
\* ------------------------------------------------------------------------

\* C22: Blur::render saves and restores all GPU state it touches: after a
\* successful render the framebuffer binding and the viewport equal their
\* values at entry, and the blend enable, the scissor-test enable, the
\* active texture unit, the 2D texture binding, the current program, the
\* array-buffer binding and the vertex-attribute state are what they were
\* before the call.
C22_GlStateRestored ==
    (blurCall.op = "render" /\ blurCall.ok) =>
        LET before == blurCall.glBefore
            after == blurCall.glAfter
        IN  /\ after.fbo = before.fbo
            /\ after.viewport = before.viewport
            /\ after.blend = before.blend
            /\ after.scissor = before.scissor
            /\ after.activeTexture = before.activeTexture
            /\ after.tex2d = before.tex2d
            /\ after.program = before.program
            /\ after.arrayBuffer = before.arrayBuffer
            /\ after.attribEnabled = before.attribEnabled
            /\ after.attribPointer = before.attribPointer


\* ------------------------------------------------------------------------
\* The capture state of a framebuffer effect
\* ------------------------------------------------------------------------

FbRenderReturned == fbCall.op = "render"

\* C24: FramebufferEffect::render declines to produce an element exactly
\* when blur is requested and the element's state holds no Blur, which is so
\* exactly when the blur program was unavailable when the state was created;
\* in every other case (blur not requested, or blur available) an element is
\* returned.  The call has no error result: it always returns, with or
\* without an element, and leaves the state in place for the next frame.
C24_DeclinesOnlyWithoutBlur ==
    FbRenderReturned =>
        /\ fbInner # <<>>
        /\ fbCall.created => (fbInner[1].blur <=> fbCall.shaderOk)
        /\ fbCall.returned <=> ~(fbCall.blurRequested /\ ~fbInner[1].blur)
        /\ fbCall.returned <=> fbElem # <<>>

\* A first render call that asks for blur on a renderer without the blur
\* program, and declines.
C24_Witness ==
    /\ FbRenderReturned
    /\ fbCall.created
    /\ fbCall.blurRequested
    /\ ~fbCall.shaderOk
    /\ ~fbCall.returned

FbCaptureReturned == fbCall.op = "capture"

\* The capture computed a size: the destination meets the output.
FbCaptureSized == FbCaptureReturned /\ fbCall.clamped # <<>>

\* The size computed by the capture that has just returned.
FbComputedSize ==
    CaptureSize(fbCall.src, fbCall.dst, fbCall.clamped[1], fbElem[1].scale)

FbSizeEqual(tex, size) == tex.w = size.w /\ tex.h = size.h

\* C23: the per-element capture state goes from Uninitialized to Ready: the
\* first FramebufferEffect::render call creates it, every later call finds
\* and reuses it, and no step takes it away.  In Ready, a capture_framebuffer
\* that finds a capture texture keeps that texture when the computed capture
\* size equals the texture's size, and otherwise drops it and creates one of
\* the computed size (none is left when create_texture fails).
C23_CreatedOnceThenReused ==
    /\ (FbRenderReturned /\ fbCall.created) => fbFrames = 1
    /\ (FbRenderReturned /\ fbFrames > 1) => ~fbCall.created
    /\ fbFrames > 0 => fbInner # <<>>
    /\ (FbCaptureSized /\ fbCall.fbBefore # <<>>) =>
           LET before == fbCall.fbBefore[1]
               after == fbInner[1].framebuffer
               kept == after = fbCall.fbBefore
           IN  /\ kept <=> FbSizeEqual(before, FbComputedSize)
               /\ ~kept =>
                      /\ after # <<>> => /\ FbSizeEqual(after[1], FbComputedSize)
                                         /\ after[1].id # before.id
                      /\ after = <<>> <=> fbCall.failAt = 1
    /\ (FbCaptureReturned /\ ~FbCaptureSized) => fbInner[1].framebuffer = fbCall.fbBefore

\* A capture in a later frame found the texture of the earlier frame with
\* another size and created a new one.
C23_Witness ==
    /\ FbCaptureSized
    /\ fbFrames > 1
    /\ fbCall.fbBefore # <<>>
    /\ fbInner[1].framebuffer # <<>>
    /\ fbInner[1].framebuffer # fbCall.fbBefore


\* ------------------------------------------------------------------------
\* The commit counter of an EffectBuffer over several frames
\* ------------------------------------------------------------------------

\* Mutant of current_commit: the element counts the prepare calls of its
\* buffer.
current_commit_of_prepares(elem) ==
    (IF elem.buffer = "background" THEN xrBackground ELSE xrBackdrop).prepares

\* XrayElement::current_commit: the commit counter of the element's buffer.
current_commit(elem) ==
    (IF elem.buffer = "background" THEN xrBackground ELSE xrBackdrop).commit

\* The content behind one of the two buffers changes between two calls of
\* Xray::render.
ContentChanges(name) ==
    /\ xrCalls.render < MaxXrayRenders
    /\ ~BufferOf(name).stale
    /\ xrBackground' = IF name = "background" THEN BufferInvalidate(xrBackground)
                       ELSE xrBackground
    /\ xrBackdrop' = IF name = "backdrop" THEN BufferInvalidate(xrBackdrop)
                     ELSE xrBackdrop
    /\ xrCall' = [op |-> "content changes", buffer |-> name]
    /\ UNCHANGED <<xrWorkspaces, xrElems, xrCalls>>
    /\ UNCHANGED otherThanXray

\* Elements at zoom 1, inside the first workspace and past the last.
CommitParams ==
    {p \in XrayParams : p.zoom = Frac /\ p.pos_in_backdrop.x # (WsWidth - 1) * Frac}

InitCommit ==
    /\ xrWorkspaces \in {<<Workspace(0, "opaque")>>, <<Workspace(0, "translucent")>>}
    /\ xrBackground = NewEffectBuffer
    /\ xrBackdrop = NewEffectBuffer
    /\ xrElems = <<>>
    /\ xrCall = [op |-> "none"]
    /\ xrCalls = [render |-> 0, draw |-> 0]
    /\ InitRegionIdle
    /\ InitBlurIdle
    /\ InitFilterIdle
    /\ InitFbIdle
    /\ InitCacheIdle
    /\ InitEffectIdle

NextCommit ==
    \/ \E params \in CommitParams, bgAvail \in BOOLEAN, bdAvail \in BOOLEAN,
          bgDiffers \in BOOLEAN, bdDiffers \in BOOLEAN :
           XrayRender(params, TRUE, bgAvail, bdAvail, bgDiffers, bdDiffers)
    \/ \E name \in {"background", "backdrop"} : ContentChanges(name)

SpecCommit == InitCommit /\ [][NextCommit]_vars

\* Whether the content offered to the buffer in the call that is returning
\* differs from the buffer's previous commit.
OfferedDiffers(name) ==
    IF name = "background" THEN xrCall'.bgDiffers ELSE xrCall'.bdDiffers

Recomputed == cbCall.op = "get_cached_blur_region" /\ cbCall.wasDirty

\* C31: when the surface has ext-background-effect state, recomputation
\* uses only that state's current blur region, giving None when it has no
\* region, whatever the KDE state holds; the KDE state is consulted only
\* when the ext state is absent, where WholeSurface gives exactly one
\* rectangle, the "infinite" one, and an explicit region its decomposition;
\* with neither state the result is None.
C31_ExtShadowsKde ==
    Recomputed =>
        LET got == cbCall.returned
        IN  /\ cbExt # <<>> =>
                   got = (IF cbExt[1].current = <<>> THEN <<>>
                          ELSE <<region_to_non_overlapping_rects(cbExt[1].current[1], <<>>)>>)
            /\ (cbExt = <<>> /\ cbKde # <<>>) =>
                   got = (IF cbKde[1].current = <<>> THEN <<>>
                          ELSE IF cbKde[1].current[1].kind = "WholeSurface"
                          THEN <<<<[x |-> 0 - 1073741823, y |-> 0 - 1073741823,
                                    w |-> 2147483647, h |-> 2147483647]>>>>
                          ELSE <<region_to_non_overlapping_rects(
                                     cbKde[1].current[1].rects, <<>>)>>)
            /\ (cbExt = <<>> /\ cbKde = <<>>) => got = <<>>

\* A recomputation on a surface whose ext state holds no region while its
\* KDE state holds the whole surface: the result is None.
C31_Witness ==
    /\ Recomputed
    /\ cbExt # <<>>
    /\ cbExt[1].current = <<>>
    /\ cbKde # <<>>
    /\ cbKde[1].current # <<>>
    /\ cbKde[1].current[1].kind = "WholeSurface"
    /\ cbCall.returned = <<>>


\* ------------------------------------------------------------------------
\* The capture -> draw cycle of one framebuffer effect over the frames
\* ------------------------------------------------------------------------

\* Blur options of a frame: none, one pass, two passes.
FramesBlurOptions == {<<>>, <<1>>, <<2>>}

\* One element without subregion, rendered, captured and drawn frame after
\* frame; the capture may be left out of a frame.
NextFrames ==
    \/ \E blur_options \in FramesBlurOptions, shaderOk \in BOOLEAN :
           FbRender([x |-> 0, y |-> 0], <<>>, Frac, blur_options, TRUE, shaderOk)
    \/ \E dst \in DrawDsts, failAt \in 0..MaxCreateFailAt,
          sameContext \in BOOLEAN, blitOk \in BOOLEAN :
           CaptureFramebuffer(DrawSrc, dst, failAt, sameContext, blitOk)
    \/ \E dst \in DrawDsts, damage \in FbDamageLists, drawOk \in BOOLEAN :
           FbDraw(DrawSrc, dst, damage, drawOk)
    \/ \E dst \in DrawDsts, damage \in FbDamageLists, drawOk \in BOOLEAN :
           FbDrawUncaptured(DrawSrc, dst, damage, drawOk)

SpecFrames == InitFb /\ [][NextFrames]_vars

\* A step that is a call of FramebufferEffectElement::draw.
FbDrawStep == fbCall.op # "draw" /\ fbCall'.op = "draw"

\* The capture that has just returned produced an intermediate: it blitted,
\* and either no blur is asked for or the blur was rendered.
CaptureProduced ==
    /\ fbCall.op = "capture"
    /\ fbCall.ok
    /\ fbCall.blit # <<>>
    /\ (fbElem[1].blur_options = <<>> \/ fbCall.render = "ok")

\* C32: capture_framebuffer clears the intermediate before anything else.
\* After a capture that returned early or failed (destination outside the
\* output, texture creation failure, blit error) the draw that follows
\* issues no GPU work and returns success; once a capture has been
\* attempted in a frame, a draw composites only what that capture produced,
\* never the intermediate of an earlier frame; and a draw before any
\* capture is a successful no-op.  (An element exists only once render has
\* created the state, so no draw meets uninitialised state.)
C32_NoStaleIntermediate ==
    [][FbDrawStep =>
          /\ (fbCall.op = "capture" /\ (fbCall.clamped = <<>> \/ ~fbCall.ok)) =>
                 (fbCall'.drawCalls = <<>> /\ fbCall'.ok)
          /\ (fbCall.op = "capture" /\ fbCall'.drawCalls # <<>>) => CaptureProduced
          /\ (fbCall.op = "capture" /\ ~CaptureProduced) =>
                 (~fbCall'.hadTexture /\ fbCall'.ok)
          /\ (fbCall.op = "render" /\ fbFrames = 1) =>
                 (fbCall'.drawCalls = <<>> /\ fbCall'.ok /\ ~fbCall'.hadTexture)]_vars

\* A draw inside the output, with damage, in the second frame: the first
\* frame's capture had created the capture texture, the second frame's
\* capture left no intermediate, and nothing is drawn.
C32_Witness ==
    /\ fbCall.op = "draw"
    /\ fbCall.captured
    /\ fbFrames = 2
    /\ fbCall.clamped # <<>>
    /\ fbCall.damage # <<>>
    /\ ~fbCall.hadTexture
    /\ fbCall.drawCalls = <<>>
    /\ fbInner[1].framebuffer # <<>>


\* A step that is a call of capture_framebuffer.
FbCaptureStep == fbCall.op = "render" /\ fbCall'.op = "capture"

\* The capture that is being made computes the size of the capture texture
\* the Inner holds.
SameCaptureSize ==
    /\ fbCall'.clamped # <<>>
    /\ fbInner[1].framebuffer # <<>>
    /\ LET size == CaptureSize(fbCall'.src, fbCall'.dst, fbCall'.clamped[1], fbElem[1].scale)
       IN  fbInner[1].framebuffer[1].w = size.w /\ fbInner[1].framebuffer[1].h = size.h

\* The earlier frame left a blurred intermediate, a handle to pyramid entry
\* 0, made with the pass count this frame asks for.
BlurredBefore ==
    /\ fbInner[1].intermediate # <<>>
    /\ textures # <<>>
    /\ fbInner[1].intermediate[1].id = textures[1].id
    /\ fbElem[1].blur_options # <<>>
    /\ Len(textures) = ClampPasses(fbElem[1].blur_options[1]) + 1

\* C33: across consecutive frames with an unchanged capture size and pass
\* count the capture -> draw cycle creates no texture after the first
\* frame: the capture drops the earlier frame's intermediate, a handle to
\* pyramid entry 0, before prepare_textures runs, so entry 0 is exclusively
\* owned, the capture texture and the pyramid are reused in place, and
\* Blur::render does not fail on the ownership of its output.
C33_NoTexturesAfterFirstFrame ==
    [][(FbCaptureStep /\ SameCaptureSize /\ BlurredBefore) =>
          /\ textures[1].id \notin held \ {fbInner[1].intermediate[1].id}
          /\ nextTexId' = nextTexId
          /\ fbCall'.created = 0
          /\ textures' = textures
          /\ fbInner'[1].framebuffer = fbInner[1].framebuffer
          /\ fbCall'.prepare = "ok"
          /\ (fbCall'.blitOk /\ fbCall'.sameContext) =>
                 /\ fbCall'.render = "ok"
                 /\ fbInner'[1].intermediate = <<textures[1]>>]_vars

\* The second frame's capture has blurred into the pyramid of the first
\* without creating a texture: the capture texture is the first texture
\* ever created, the pyramid the ones created right after it.
C33_Witness ==
    /\ fbCall.op = "capture"
    /\ fbFrames = 2
    /\ fbCall.render = "ok"
    /\ fbCall.created = 0
    /\ fbInner[1].framebuffer[1].id = 1
    /\ textures[1].id = 2
    /\ Len(textures) = 3
    /\ nextTexId = 5


-----------------------------------------------------------------------------
(* BackgroundEffect, src/render_helpers/background_effect.rs               *)
(*                                                                         *)
(* An Option<bool> or Option<f64> of the configuration is <<>> for None    *)
(* and <<v>> for Some(v); noise and saturation count 1/Frac units.  The    *)
(* ExtraDamage is kept as the number of damage_all calls made on it.       *)

\* damage_all calls in a behaviour.
MaxDamage == 3

\* Mutant of ResolveBlur: the blur region of the surface is not looked at.
ResolveBlurConfigOnly(effect, has_blur_region) == effect.blur = <<TRUE>>

\* "If the surface explicitly requests a blur region, default blur to true."
ResolveBlur(effect, has_blur_region) ==
    IF has_blur_region THEN effect.blur # <<FALSE>> ELSE effect.blur = <<TRUE>>

\* Options::is_visible
IsVisible(options) ==
    \/ options.xray
    \/ options.blur
    \/ (options.noise # <<>> /\ options.noise[1] > 0)
    \/ (options.saturation # <<>> /\ options.saturation[1] # Frac)

\* Mutant of ResolveOptions: xray is never defaulted.
ResolveOptionsNoDefault(effect, has_blur_region) ==
    [blur |-> ResolveBlur(effect, has_blur_region), xray |-> effect.xray = <<TRUE>>,
     noise |-> effect.noise, saturation |-> effect.saturation]

\* The options update_render_elements resolves from the configuration.
ResolveOptions(effect, has_blur_region) ==
    LET options == [blur |-> ResolveBlur(effect, has_blur_region),
                    xray |-> effect.xray = <<TRUE>>,
                    noise |-> effect.noise, saturation |-> effect.saturation]
    IN  IF IsVisible(options) /\ effect.xray = <<>>
        THEN [options EXCEPT !.xray = TRUE]
        ELSE options

\* Mutant of SameRenderElements: the corner radius is not compared.
SameOptionsOnly(effect0, options, corner_radius) == effect0.options = options

\* "self.options == options && self.corner_radius == corner_radius"
SameRenderElements(effect0, options, corner_radius) ==
    effect0.options = options /\ effect0.corner_radius = corner_radius

\* BackgroundEffect::update_config(config)
UpdateConfig(config) ==
    /\ beEffect.damage < MaxDamage
    /\ LET same == beEffect.blur_config = config
       IN  /\ beEffect' = IF same THEN beEffect
                          ELSE [beEffect EXCEPT !.blur_config = config, !.damage = @ + 1]
           /\ beCall' = [op |-> "update_config", config |-> config, damaged |-> ~same]
    /\ UNCHANGED otherThanEffect

\* BackgroundEffect::update_render_elements(corner_radius, effect,
\* has_blur_region)
UpdateRenderElements(corner_radius, effect, has_blur_region) ==
    /\ beEffect.damage < MaxDamage
    /\ LET options == ResolveOptions(effect, has_blur_region)
           same == SameRenderElements(beEffect, options, corner_radius)
       IN  /\ beEffect' = IF same THEN beEffect
                          ELSE [beEffect EXCEPT !.options = options,
                                                !.corner_radius = corner_radius,
                                                !.damage = @ + 1]
           /\ beCall' = [op |-> "update_render_elements", corner_radius |-> corner_radius,
                         effect |-> effect, has_blur_region |-> has_blur_region,
                         damaged |-> ~same]
    /\ UNCHANGED otherThanEffect

OptionBools == {<<>>, <<FALSE>>, <<TRUE>>}

\* niri_config::BackgroundEffect: every field set or not; noise below, at
\* and above 0, saturation at and off 1.
Effects ==
    [blur : OptionBools, xray : OptionBools,
     noise : {<<>>, <<0 - 1>>, <<0>>, <<1>>},
     saturation : {<<>>, <<Frac>>, <<Frac + 1>>}]

\* niri_config::Blur: the one of a new effect, blur switched off, and one
\* with noise and saturation.
BlurConfigs ==
    {NoBlurConfig,
     [off |-> TRUE, noise |-> 0, saturation |-> Frac],
     [off |-> FALSE, noise |-> 1, saturation |-> Frac + 1]}

CornerRadii == {0, 1}

InitEffect ==
    /\ InitEffectIdle
    /\ InitRegionIdle
    /\ InitBlurIdle
    /\ InitFilterIdle
    /\ InitFbIdle
    /\ InitXrayIdle
    /\ InitCacheIdle

NextEffect ==
    \/ \E config \in BlurConfigs : UpdateConfig(config)
    \/ \E corner_radius \in CornerRadii, effect \in Effects, has_blur_region \in BOOLEAN :
           UpdateRenderElements(corner_radius, effect, has_blur_region)

SpecEffect == InitEffect /\ [][NextEffect]_vars

(* Properties of update_config and update_render_elements                  *)

UpdatedElements == beCall.op = "update_render_elements"

\* C34: update_render_elements turns blur on by default exactly when the
\* surface has an explicit blur region: with a blur region blur is on
\* unless the configuration sets blur to false, without one blur is on
\* only if the configuration sets blur to true.
C34_BlurDefaultsWithRegion ==
    UpdatedElements =>
        LET set == beCall.effect.blur
            on == beEffect.options.blur
        IN  /\ set = <<TRUE>> => on
            /\ set = <<FALSE>> => ~on
            /\ set = <<>> => (on <=> beCall.has_blur_region)

\* Blur left unset on a surface with a blur region: blur is on.
C34_Witness ==
    /\ UpdatedElements
    /\ beCall.effect.blur = <<>>
    /\ beCall.has_blur_region
    /\ beEffect.options.blur

\* Something other than xray makes the effect visible.
OtherwiseVisible ==
    \/ beEffect.options.blur
    \/ (beEffect.options.noise # <<>> /\ beEffect.options.noise[1] > 0)
    \/ (beEffect.options.saturation # <<>> /\ beEffect.options.saturation[1] # Frac)

\* C35: after update_render_elements xray is on if the configuration
\* enables it, off if the configuration disables it and, when unset, on
\* exactly when some effect is visible (blur on, noise above 0, saturation
\* other than 1); so with xray unset and nothing else visible the effect is
\* not visible.
C35_XrayDefaultsWhenVisible ==
    UpdatedElements =>
        LET set == beCall.effect.xray
            on == beEffect.options.xray
        IN  /\ set = <<TRUE>> => on
            /\ set = <<FALSE>> => ~on
            /\ set = <<>> => (on <=> OtherwiseVisible)
            /\ (set = <<>> /\ ~OtherwiseVisible) => ~IsVisible(beEffect.options)
            /\ beEffect.options.noise = beCall.effect.noise
            /\ beEffect.options.saturation = beCall.effect.saturation

\* Xray left unset, blur off, and a saturation other than 1: xray is on.
C35_Witness ==
    /\ UpdatedElements
    /\ beCall.effect.xray = <<>>
    /\ ~beEffect.options.blur
    /\ beEffect.options.saturation = <<Frac + 1>>
    /\ beEffect.options.xray

\* The options the configuration of the call that is returning resolves
\* to, by the rules of blur and xray.
ExpectedOptions ==
    LET effect == beCall'.effect
        blur == \/ effect.blur = <<TRUE>>
                \/ (effect.blur = <<>> /\ beCall'.has_blur_region)
        other == \/ blur
                 \/ (effect.noise # <<>> /\ effect.noise[1] > 0)
                 \/ (effect.saturation # <<>> /\ effect.saturation[1] # Frac)
    IN  [blur |-> blur,
         xray |-> (effect.xray = <<TRUE>> \/ (effect.xray = <<>> /\ other)),
         noise |-> effect.noise, saturation |-> effect.saturation]

UpdateConfigStep ==
    beCall'.op = "update_config" /\ <<beEffect, beCall>>' # <<beEffect, beCall>>

UpdateElementsStep ==
    beCall'.op = "update_render_elements" /\ <<beEffect, beCall>>' # <<beEffect, beCall>>

\* C36: update_config and update_render_elements damage the whole effect
\* if and only if the new blur configuration, the resolved options or the
\* corner radius differ from the stored ones; a call repeated with the same
\* arguments causes no further damage and leaves the stored state as it is.
C36_DamageIffChanged ==
    [][/\ (beCall'.op = "update_config" /\ beCall' # beCall) =>
              /\ beEffect'.damage = beEffect.damage + 1
                     <=> beCall'.config # beEffect.blur_config
              /\ beEffect'.damage \in {beEffect.damage, beEffect.damage + 1}
              /\ beEffect'.blur_config = beCall'.config
       /\ (beCall'.op = "update_render_elements" /\ beCall' # beCall) =>
              /\ beEffect'.damage = beEffect.damage + 1
                     <=> (\/ ExpectedOptions # beEffect.options
                          \/ beCall'.corner_radius # beEffect.corner_radius)
              /\ beEffect'.damage \in {beEffect.damage, beEffect.damage + 1}
              /\ beEffect'.options = ExpectedOptions
              /\ beEffect'.corner_radius = beCall'.corner_radius
       /\ beCall'.op \in {"update_config", "update_render_elements"} =>
              (beCall'.damaged <=> beEffect'.damage # beEffect.damage)
       /\ (/\ beCall.op \in {"update_config", "update_render_elements"}
           /\ beCall'.op = beCall.op
           /\ [beCall' EXCEPT !.damaged = FALSE] = [beCall EXCEPT !.damaged = FALSE]) =>
              beEffect' = beEffect]_vars

\* The corner radius alone changed, and the effect was damaged a second
\* time.
C36_Witness ==
    /\ UpdatedElements
    /\ beCall.damaged
    /\ beEffect.damage = 2
    /\ beEffect.corner_radius = 1
    /\ beEffect.options = NoOptions


-----------------------------------------------------------------------------
(* BackgroundEffect::render                                                *)

\* The element self.damage.render(params.geometry) gives.
ExtraDamageElement(params) == [buffer |-> "damage", geometry |-> params.geometry]

\* "let blur = self.options.blur && !self.blur_config.off"
RenderBlur(effect0) == effect0.options.blur /\ ~effect0.blur_config.off

\* Mutant of RendersXray: the xray branch is taken whenever the effect is
\* visible.
RendersWhenVisible(effect0, hasXray) == IsVisible(effect0.options) /\ hasXray

\* Whether render reaches push: the effect is visible, its xray option is
\* on, and ctx.xray is Some.
RendersXray(effect0, hasXray) ==
    /\ IsVisible(effect0.options)
    /\ effect0.options.xray
    /\ hasXray

\* BackgroundEffect::render(ctx, params, push).  hasXray is ctx.xray being
\* Some; bgAvail and bdAvail are what the two buffers' prepare returns in
\* Xray::render.  The clip of the params is not part of the elements here.
BeRender(params, hasXray, bgAvail, bdAvail) ==
    /\ IF RendersXray(beEffect, hasXray)
       THEN /\ XrayRenderCall(params, RenderBlur(beEffect), bgAvail, bdAvail, TRUE, TRUE)
            /\ beCall' = [op |-> "render", params |-> params, hasXray |-> hasXray,
                          pushed |-> <<ExtraDamageElement(params)>> \o xrCall'.pushed]
       ELSE /\ beCall' = [op |-> "render", params |-> params, hasXray |-> hasXray,
                          pushed |-> <<>>]
            /\ UNCHANGED xrayVars
    /\ UNCHANGED beEffect
    /\ UNCHANGED otherThanEffectAndXray

\* Configurations of the rendered effect: blur and xray set or not, noise
\* and saturation unset.
RenderEffects ==
    {effect \in Effects : effect.noise = <<>> /\ effect.saturation = <<>>}

\* Blur configurations of the rendered effect: the default one and blur off.
RenderBlurConfigs == {config \in BlurConfigs : config.noise = 0}

\* Params of the rendered effect: no subregion, zoom 1.
RenderParams == {params \in XrayParams : params.subregion = <<>> /\ params.zoom = Frac}

\* Workspaces under the rendered effect: one translucent, two opaque.
RenderWorkspaces ==
    {wss \in WorkspaceLists \ {<<>>} : Len(wss) = 2 \/ ~IsOpaque(wss[1].color)}

InitEffectRender ==
    /\ InitEffectIdle
    /\ xrWorkspaces \in RenderWorkspaces
    /\ xrBackground = NewEffectBuffer
    /\ xrBackdrop = NewEffectBuffer
    /\ xrElems = <<>>
    /\ xrCall = [op |-> "none"]
    /\ xrCalls = [render |-> 0, draw |-> 0]
    /\ InitRegionIdle
    /\ InitBlurIdle
    /\ InitFilterIdle
    /\ InitFbIdle
    /\ InitCacheIdle

NextEffectRender ==
    \/ \E config \in RenderBlurConfigs : UpdateConfig(config)
    \/ \E effect \in RenderEffects, has_blur_region \in BOOLEAN :
           UpdateRenderElements(0, effect, has_blur_region)
    \/ \E params \in RenderParams, hasXray \in BOOLEAN,
          bgAvail \in BOOLEAN, bdAvail \in BOOLEAN :
           BeRender(params, hasXray, bgAvail, bdAvail)

SpecEffectRender == InitEffectRender /\ [][NextEffectRender]_vars

(* Properties of BackgroundEffect::render                                  *)

Rendered == beCall.op = "render"

\* Position k of the pushed elements holds an element of the given buffer.
PushedAt(k, buffer) == beCall.pushed[k].buffer = buffer

\* C37: render pushes no element when the effect is not visible, when xray
\* is on but the context has no xray source, or when xray is off; with xray
\* on and a source it pushes the extra-damage element first and then the
\* xray elements, every background element before the backdrop element.
C37_PushesOnlyThroughXray ==
    Rendered =>
        LET n == Len(beCall.pushed)
        IN  /\ ~IsVisible(beEffect.options) => n = 0
            /\ (beEffect.options.xray /\ ~beCall.hasXray) => n = 0
            /\ ~beEffect.options.xray => n = 0
            /\ (beEffect.options.xray /\ beCall.hasXray) =>
                   /\ n >= 1
                   /\ PushedAt(1, "damage")
                   /\ xrCall.op = "render"
                   /\ beCall.pushed = <<beCall.pushed[1]>> \o xrCall.pushed
                   /\ \A k \in 2..n : beCall.pushed[k].buffer \in {"background", "backdrop"}
                   /\ \A j \in 2..n, k \in 2..n :
                          (PushedAt(j, "background") /\ PushedAt(k, "backdrop")) => j < k

\* Xray on with a source, two workspaces and the backdrop pushed: the
\* damage, two background elements, the backdrop.
C37_Witness ==
    /\ Rendered
    /\ beEffect.options.xray
    /\ beCall.hasXray
    /\ Len(beCall.pushed) = 4
    /\ PushedAt(1, "damage")
    /\ PushedAt(2, "background")
    /\ PushedAt(3, "background")
    /\ PushedAt(4, "backdrop")


-----------------------------------------------------------------------------
(* Elements with no subregion, with a subregion that has no rectangle, and *)
(* with one that has rectangles, drawn in one frame.                       *)

\* A subregion whose rectangle list is empty.
EmptySubregion ==
    <<[rects |-> <<>>, scale |-> [x |-> Frac, y |-> Frac], offset |-> [x |-> 0, y |-> 0]]>>

\* The framebuffer effect's destinations here: inside the output and across
\* its left edge.
SubregionDsts ==
    {[x |-> 1, y |-> 1, w |-> DstSide, h |-> DstSide],
     [x |-> 0 - 1, y |-> 0, w |-> DstSide, h |-> DstSide]}

\* The Xray elements here: inside the first workspace at zoom 1, with every
\* subregion of XraySubregions and with the empty one.
SubregionParams ==
    {[params EXCEPT !.subregion = sub] :
        params \in {p \in DrawParams : p.subregion = <<>>},
        sub \in XraySubregions \cup {EmptySubregion}}

InitSubregion ==
    /\ InitFbIdle
    /\ xrWorkspaces = <<Workspace(0, "translucent")>>
    /\ xrBackground = NewEffectBuffer
    /\ xrBackdrop = NewEffectBuffer
    /\ xrElems = <<>>
    /\ xrCall = [op |-> "none"]
    /\ xrCalls = [render |-> 0, draw |-> 0]
    /\ InitRegionIdle
    /\ InitBlurIdle
    /\ InitFilterIdle
    /\ InitCacheIdle
    /\ InitEffectIdle

NextSubregion ==
    \/ \E sub \in FbSubregions \cup {EmptySubregion} :
           FbRender([x |-> 0, y |-> 0], sub, Frac, <<>>, TRUE, TRUE)
    \/ \E dst \in SubregionDsts : CaptureFramebuffer(DrawSrc, dst, 0, TRUE, TRUE)
    \/ \E dst \in SubregionDsts, damage \in FbDamageLists :
           FbDraw(DrawSrc, dst, damage, TRUE)
    \/ \E params \in SubregionParams : XrayRender(params, TRUE, TRUE, TRUE, TRUE, TRUE)
    \/ \E k \in 1..Len(xrElems), damage \in XrayDamageLists :
           XrayDraw(k, xrElems[k].src, XrayDst, damage, TRUE, TRUE)

SpecSubregion == InitSubregion /\ [][NextSubregion]_vars

\* A framebuffer effect's draw that got as far as filtering its damage.
FbDrawFiltered == fbCall.op = "draw" /\ fbCall.hadTexture /\ fbCall.clamped # <<>>

\* An Xray element's draw that got as far as filtering its damage.
XrayDrawFiltered == xrCall.op = "draw" /\ xrCall.hadTexture

\* C38: in draw an absent subregion passes every damage rectangle through
\* unchanged, and a present subregion with an empty rectangle list filters
\* every damage rectangle out so that nothing is drawn, for the framebuffer
\* effect's element and for the Xray element.
C38_AbsentPassesEmptyDrawsNothing ==
    /\ FbDrawFiltered =>
           /\ fbElem[1].subregion = <<>> =>
                  /\ fbCall.inSubregion = fbCall.damage
                  /\ (fbCall.clamped = <<fbCall.dst>> /\ fbCall.damage # <<>>) =>
                         /\ Len(fbCall.drawCalls) = 1
                         /\ fbCall.drawCalls[1].damage = fbCall.damage
           /\ (fbElem[1].subregion # <<>> /\ fbElem[1].subregion[1].rects = <<>>) =>
                  /\ fbCall.inSubregion = <<>>
                  /\ fbCall.drawCalls = <<>>
    /\ XrayDrawFiltered =>
           /\ xrCall.elem.subregion = <<>> =>
                  /\ Len(xrCall.drawCalls) = 1
                  /\ xrCall.drawCalls[1].damage = xrCall.damage
           /\ (xrCall.elem.subregion # <<>> /\ xrCall.elem.subregion[1].rects = <<>>) =>
                  /\ xrCall.remaining = <<>>
                  /\ xrCall.drawCalls = <<>>

\* Both elements were given an empty subregion and damage over their whole
\* destination, and neither drew.
C38_Witness ==
    /\ FbDrawFiltered
    /\ fbElem[1].subregion = EmptySubregion
    /\ fbCall.damage # <<>>
    /\ fbCall.drawCalls = <<>>
    /\ XrayDrawFiltered
    /\ xrCall.elem.subregion = EmptySubregion
    /\ xrCall.damage = <<XrayDst>>
    /\ xrCall.drawCalls = <<>>

=============================================================================
